---- MODULE Spec2Model ----
(***************************************************************************)
(* Model of the two-process voice pipeline of troble-ai:                   *)
(*   - CaptureWorker  : VoiceInputModule.run_loop                          *)
(*                      (src/src/pipeline/voice_input_module.py)           *)
(*   - ResponseWorker : pipeline_worker_func                               *)
(*                      (src/src/pipeline/pipeline_orchestrator.py), with  *)
(*                      IntelligenceModule.process_query, LLMWrapper and   *)
(*                      AudioOutputModule.synthesize_and_play inlined as   *)
(*                      the steps between two reads of interrupt_count.    *)
(* The processes share command_queue, interrupt_count, playback_active             *)
(* and the two setup events (PipelineOrchestrator.__init__).               *)
(*                                                                         *)
(* Text is a sequence of tokens.  A token is a word (a string of letters), *)
(* or one of the separators " " and ",", or a tag of the prompt template.  *)
(* Time is an integer number of half seconds (0.5 s is the smallest        *)
(* constant of config.py), so CONTINUATION_THRESHOLD = 0.5 s is 1.         *)
(***************************************************************************)
EXTENDS Integers, Sequences, FiniteSets, TLC

\* ------------------------------------------------------------------------
\* Bounds of the model
\* ------------------------------------------------------------------------
\* iterations of run_loop's while True that CaptureWorker may begin
MaxLoops == 2
\* number of times the clock may jump past the wake-word reset timeout
MaxTicks == 1
\* largest value of interrupt_count for which a barge-in is still modelled
MaxInterrupts == 2
\* items on the command queue when ResponseWorker is started on a queue that
\* another producer has filled
MaxQueue == 3
\* samples of the audio handed to play_wav_file_interruptible
MaxSamples == 3
\* chunks of the completion stream that send_to_llm consumes
MaxChunks == 2

\* ------------------------------------------------------------------------
\* Program constants (config.py), times in half seconds
\* ------------------------------------------------------------------------
WAKEWORD_RESET_TIME == 90
CONTINUATION_THRESHOLD == 1
VOICE_THRESHOLD == 1
SILENCE_THRESHOLD == 4
\* process_query: "current_time - self.last_processed_time < 2.0"
DEBOUNCE_WINDOW == 4
\* process_query: "len(self.llm.interrupt_context) > 3"
INTERRUPT_CONTEXT_CAP == 3
\* RAG scores in tenths: RAG_CONFIDENCE_THRESHOLD = 0.3
RAG_CONFIDENCE_THRESHOLD == 3
ENABLE_WEBSEARCH == TRUE
ENABLE_THINK == FALSE

\* ------------------------------------------------------------------------
\* Text: tokens, and the string operations the code applies
\* ------------------------------------------------------------------------
SP == " "
COMMA == ","

\* str.lower() on the vocabulary of the model
LowerTok(tok) ==
    CASE tok = "Lights" -> "lights"
      [] tok = "Hey"    -> "hey"
      [] tok = "Bye"    -> "bye"
      [] OTHER          -> tok

Lower(text) == [i \in DOMAIN text |-> LowerTok(text[i])]

RECURSIVE LStrip(_)
LStrip(text) ==
    IF text # <<>> /\ Head(text) = SP THEN LStrip(Tail(text)) ELSE text

RECURSIVE RStrip(_)
RStrip(text) ==
    IF text # <<>> /\ text[Len(text)] = SP
    THEN RStrip(SubSeq(text, 1, Len(text) - 1))
    ELSE text

\* str.strip()
Strip(text) == RStrip(LStrip(text))

\* str.split(): the words (maximal runs of non-blank tokens)
RECURSIVE SplitFrom(_, _, _)
SplitFrom(text, cur, acc) ==
    IF text = <<>>
    THEN IF cur = <<>> THEN acc ELSE Append(acc, cur)
    ELSE IF Head(text) = SP
         THEN SplitFrom(Tail(text), <<>>, IF cur = <<>> THEN acc ELSE Append(acc, cur))
         ELSE SplitFrom(Tail(text), Append(cur, Head(text)), acc)

Split(text) == SplitFrom(text, <<>>, <<>>)

\* "needle in haystack" for str
Contains(haystack, needle) ==
    \E i \in 0..(Len(haystack) - Len(needle)) :
        SubSeq(haystack, i + 1, i + Len(needle)) = needle

\* config.GOODBYE_PHRASES
GOODBYE_PHRASES ==
    { <<"goodbye">>, <<"bye">>, <<"see", SP, "you", SP, "later">>,
      <<"talk", SP, "to", SP, "you", SP, "later">>, <<"bye", SP, "bye">>,
      <<"good", SP, "night">>, <<"goodnight">>, <<"catch", SP, "you", SP, "later">>,
      <<"see", SP, "ya">>, <<"peace", SP, "out">>, <<"until", SP, "next", SP, "time">>,
      <<"farewell">>, <<"take", SP, "care">>, <<"later">> }

\* VoiceInputModule.is_goodbye_phrase
is_goodbye_phrase(text) ==
    LET text_lower == Strip(Lower(text))
    IN  \E goodbye \in GOODBYE_PHRASES : Contains(text_lower, Lower(goodbye))

\* a token made of word characters only (regex \w+)
IsWordTok(tok) == tok \notin {SP, COMMA, ".", "?", "!"}

SingleLetters ==
    {"a", "b", "c", "d", "e", "f", "g", "h", "i", "j", "k", "l", "m",
     "n", "o", "p", "q", "r", "s", "t", "u", "v", "w", "x", "y", "z"}

\* the alternatives of meaningless_patterns: every pattern is ^(...)$
MeaninglessWhole ==
    SingleLetters
    \cup {"uh", "um", "hmm", "ah", "oh", "eh"}
    \cup {"huh", "what", "hey", "yo"}
    \cup {"the", "and", "or", "but", "if", "so", "to", "a", "an", "is", "are",
          "was", "were", "be"}
    \cup {"yes", "no", "ok", "okay"}
    \cup {"hi", "hello"}
    \cup {".", COMMA, "?", "!"}

QuestionLead ==
    {"what", "how", "when", "where", "why", "who", "can", "will", "should",
     "could", "would", "do", "does", "did", "is", "are", "was", "were"}

PoliteTail == {"help", "please", "thanks", "now", "today", "tomorrow", "here", "there"}

ImperativeLead ==
    {"tell", "show", "give", "find", "search", "play", "stop", "start", "open", "close"}

meaningful_single_words ==
    {"help", "stop", "pause", "resume", "continue", "restart", "repeat",
     "thanks", "thank", "please", "sorry", "excuse",
     "weather", "time", "date", "news", "music",
     "search", "find", "lookup", "google"}

\* IntelligenceModule._is_meaningful_prompt
is_meaningful_prompt(text) ==
    IF text = <<>> THEN FALSE
    ELSE
    LET cleaned_text == Strip(Lower(text))
        words == Split(cleaned_text)
        w1 == words[1]
        w2 == words[2]
    IN  IF Len(words) > 2 THEN TRUE
        ELSE IF Len(cleaned_text) = 1 /\ cleaned_text[1] \in MeaninglessWhole THEN FALSE
        ELSE IF Len(words) = 2
             THEN \/ (Len(w1) = 1 /\ w1[1] \in QuestionLead /\ IsWordTok(w2[1]))
                  \/ (Len(w1) = 1 /\ IsWordTok(w1[1]) /\ w2[1] \in PoliteTail)
                  \/ (Len(w1) = 1 /\ w1[1] \in ImperativeLead /\ IsWordTok(w2[1]))
        ELSE Len(cleaned_text) = 1 /\ cleaned_text[1] \in meaningful_single_words

\* the duplicate test of process_query: text.strip().lower()
Normalize(text) == Lower(Strip(text))

\* Merge joining the two texts with a blank only
Merge_NoComma(prev_text, text) == prev_text \o <<SP>> \o text

\* process_text_continuation: self.prev_text + ", " + text
Merge(prev_text, text) == prev_text \o <<COMMA, SP>> \o text


\* ------------------------------------------------------------------------
\* Inputs of the model
\* ------------------------------------------------------------------------
\* what Whisper may return for a recording (transcribe_audio); <<>> is ""
T_A == <<"lights", SP, "on", SP, "now">>
T_A2 == <<SP, "Lights", SP, "on", SP, "now">>
T_HEY == <<"Hey">>
T_BYE == <<"Bye">>

\* seconds (in half seconds) a recording may last: silence only, or
\* silence plus the least voiced time that makes it a command
RecordDurations == {SILENCE_THRESHOLD, SILENCE_THRESHOLD + VOICE_THRESHOLD}

\* time that may pass while one of the processes is descheduled or blocked
\* for long: more than the wake-word reset timeout
LongDelay == WAKEWORD_RESET_TIME + 1

\* time Whisper may take to transcribe: none that the clock shows, or as
\* much as the continuation threshold
TranscribeDelays == {0, CONTINUATION_THRESHOLD}

\* time the LLM may take to stream its answer: none that the clock shows, or
\* as much as the debounce window
GenerateDelays == {0, DEBOUNCE_WINDOW}

\* time.time() when the processes start: the epoch clock is far beyond
\* WAKEWORD_RESET_TIME
StartTime == WAKEWORD_RESET_TIME + 10

\* context text built from RAG or search results
DOC == <<"doc">>

\* goodbye_responses of process_query (random.choice picks one)
goodbye_responses == {<<"Goodbye">>, <<"See", SP, "you", SP, "later">>}

\* text the LLM may stream back
LLM_REPLY == <<"reply">>

\* ------------------------------------------------------------------------
\* State
\* ------------------------------------------------------------------------
VARIABLES
    \* shared (PipelineOrchestrator.__init__)
    command_queue, interrupt_count, playback_active,
    voice_setup_event, pipeline_setup_event,
    \* every += 1 of interrupt_count, with the round and the place the
    \* pipeline worker was at, and the number of -= 1 (history)
    incs, decs,
    \* the clock read by time.time()
    now, ticks,
    \* what the user does in this run: "bargein" (the user may barge in and
    \* may pause for long) or "dialogue" (the user neither barges in nor
    \* pauses for long, and may speak once more); what else happens:
    \* "faults" (the user may barge in, and calls may raise), "requeue"
    \* (another producer has filled the queue), "playback" (s2s_pipeline
    \* plays a response), "interrupts" (the user may barge in and may speak
    \* once more, and does not pause for long), "stream" (the user may barge
    \* in, and the LLM answers in no, one or several chunks), "reset" and
    \* "noreset" (the user does not barge in and may pause for long; config.py
    \* has WAKEWORD_RESET_TIME as shipped, or 0), "websearch" and
    \* "nowebsearch" (the user does not barge in; config.py has
    \* ENABLE_WEBSEARCH as shipped, or False), "mainloop" (s2s_pipeline
    \* runs its loop)
    scenario,
    \* VoiceInputModule fields
    ask_wakeword, first_loop, last_command_time, prev_text,
    \* run_loop: position and locals
    vpc, v_duration, v_text, v_continuation, v_is_goodbye, v_start_time, loops,
    \* history of run_loop: a wake word was heard since the last accepted
    \* utterance; the last accepted utterance was a goodbye; the transcripts
    \* that make up prev_text
    heard_wake, after_goodbye, v_chain,
    \* IntelligenceModule / LLMWrapper fields
    last_processed_query, last_processed_time, interrupt_context,
    current_chat_history,
    \* pipeline_worker_func: position and locals
    ppc, p_text, p_continuation, p_is_goodbye, p_response, p_interrupted,
    p_context, p_count,
    \* history of pipeline_worker_func: items read by marker; the content of
    \* the last prompt sent to the LLM and the number of generation calls;
    \* decrements made since the last call of process_query; the text of the last
    \* interrupted round that no generation call has followed yet; the last
    \* bounded read of a FINISH timed out; the calls of process_query
    starts_read, finishes_read, llm_prompt, llm_calls, round_decs,
    pending_interrupted, finish_late, rounds,
    \* the text last sent to the chatbox by VRChatOSC ("/chatbox/input")
    osc_message,
    \* the level of the record that the last read of a FINISH logged
    p_logged,
    \* LLMWrapper.send_to_llm: the chunks of the completion stream that the
    \* loop "for chunk in stream" has not consumed yet, and response_text
    llm_stream, response_text,
    \* s2s_pipeline.main, from the start of the playback of a response:
    \* position, the Event shared with the listener thread and the value
    \* returned by play_wav_file_interruptible
    mpc, interrupt_event, playback_completed,
    \* play_wav_file_interruptible: the lengths of the chunks still to be
    \* written (the first is the one in hand), the locals of the same names,
    \* the Event set by the flush thread and the position of that thread
    pcm_list, total_written_length, interrupted, completion_event, fpc,
    \* Recorder.listen_for_wake_word_with_interrupt: position
    lpc,
    \* history of the playback: the listener heard the wake word; it set the
    \* event before the flush had completed; it set it while audio was left
    \* to write beyond the write in hand; calls of speaker.write begun after
    \* it set the event; the audio handed to the player was playable
    detected, set_before_flushed, set_with_audio_left, writes_after_set,
    playable,
    \* s2s_pipeline.main: the locals conversation_mode, pending_text and text
    conversation_mode, pending_text, m_text,
    \* history of the loop of main: iterations begun; in the iteration in
    \* hand, record_wake_word returned and listen_for_command was called at
    \* the top; how the iteration before ended ("start" before the first,
    \* "interrupted", "captured" or "silent" after a playback, "no_text"
    \* after a recording without text); the texts handed to the response
    \* stage, each with whether it came from pending_text; the texts
    \* captured by the brief listening
    m_loops, m_wake, m_recorded, m_before, m_processed, m_captured

counted == <<incs, decs>>
shared == <<command_queue, interrupt_count, counted, playback_active,
            voice_setup_event, pipeline_setup_event, osc_message>>
clock == <<now, ticks, scenario>>
vfields == <<ask_wakeword, first_loop, last_command_time, prev_text>>
vlocals == <<vpc, v_duration, v_text, v_continuation, v_is_goodbye, v_start_time,
             loops, heard_wake, after_goodbye, v_chain>>
pfields == <<last_processed_query, last_processed_time, interrupt_context,
             current_chat_history>>
plocals == <<ppc, p_text, p_continuation, p_is_goodbye, p_response, p_interrupted,
             p_context, p_count>>
phist == <<starts_read, finishes_read, llm_prompt, llm_calls, round_decs,
           pending_interrupted, finish_late, rounds, p_logged>>
voice == <<vfields, vlocals>>
streaming == <<llm_stream, response_text>>
pipeline == <<pfields, plocals, phist, streaming>>
mainloop == <<conversation_mode, pending_text, m_text, m_loops, m_wake,
              m_recorded, m_before, m_processed, m_captured>>
playback == <<mpc, interrupt_event, playback_completed, pcm_list,
              total_written_length, interrupted, completion_event, fpc, lpc,
              detected, set_before_flushed, set_with_audio_left,
              writes_after_set, playable, mainloop>>
vars == <<shared, clock, voice, pipeline, playback>>

\* the inputs of a run, by scenario
BargeIns == IF scenario \in {"bargein", "faults", "interrupts", "stream"}
            THEN BOOLEAN
            ELSE {FALSE}
Transcripts == IF scenario = "bargein" THEN {<<>>, T_A, T_HEY, T_BYE}
               ELSE IF scenario \in {"faults", "stream", "websearch", "nowebsearch"}
               THEN {T_A}
               ELSE IF scenario = "interrupts" THEN {T_A, T_BYE}
               ELSE IF scenario \in {"reset", "noreset"} THEN {T_A, T_HEY}
               ELSE {T_A, T_A2, T_HEY}
\* top relevance score RAG may return, in tenths
RagScores == IF scenario \in {"bargein", "websearch", "nowebsearch"}
             THEN {1, 3}
             ELSE {3}
LoopBound == IF scenario \in {"bargein", "faults", "stream", "reset", "noreset",
                              "websearch", "nowebsearch"}
             THEN MaxLoops
             ELSE MaxLoops + 1
TickBound == IF scenario \in {"bargein", "reset", "noreset"} THEN MaxTicks
             ELSE 0
\* config.py: WAKEWORD_RESET_TIME of the run ("0 = disable natural
\* conversation")
ResetTime == IF scenario = "noreset" THEN 0 ELSE WAKEWORD_RESET_TIME
\* config.py: ENABLE_WEBSEARCH of the run
EnableWebsearch == IF scenario = "nowebsearch" THEN FALSE ELSE ENABLE_WEBSEARCH

WorkItem(text, marker, continuation, is_goodbye, start_time) ==
    [text |-> text, marker |-> marker, continuation |-> continuation,
     is_goodbye |-> is_goodbye, start_time |-> start_time]

\* play_wav_file_interruptible not called yet, no listener thread and no
\* flush thread
PlayerIdle ==
    /\ interrupt_event = FALSE
    /\ playback_completed = "none"
    /\ pcm_list = <<>>
    /\ total_written_length = 0
    /\ interrupted = FALSE
    /\ completion_event = FALSE
    /\ fpc = "idle"
    /\ lpc = "idle"
    /\ detected = FALSE
    /\ set_before_flushed = FALSE
    /\ set_with_audio_left = FALSE
    /\ writes_after_set = 0
    /\ playable = FALSE

\* main before its loop: conversation_mode = False, pending_text = None
MainLoopIdle ==
    /\ conversation_mode = FALSE
    /\ pending_text = <<>>
    /\ m_text = <<>>
    /\ m_loops = 0
    /\ m_wake = FALSE
    /\ m_recorded = FALSE
    /\ m_before = "start"
    /\ m_processed = <<>>
    /\ m_captured = <<>>

\* s2s_pipeline.main with a synthesized response in hand, before
\* "interrupt_event = threading.Event()"
PlaybackIdle ==
    /\ mpc = "start_listener"
    /\ PlayerIdle
    /\ MainLoopIdle

\* PipelineOrchestrator.__init__, VoiceInputModule.__init__,
\* IntelligenceModule.__init__ and LLMWrapper.__init__ (with no saved chat
\* history)
InitWorkers ==
    /\ command_queue = <<>>
    /\ interrupt_count = 0
    /\ incs = <<>>
    /\ decs = 0
    /\ playback_active = 0
    /\ voice_setup_event = FALSE
    /\ pipeline_setup_event = FALSE
    /\ now = StartTime
    /\ ticks = 0
    /\ ask_wakeword = TRUE
    /\ first_loop = TRUE
    /\ last_command_time = 0
    /\ prev_text = <<>>
    /\ vpc = "setup"
    /\ v_duration = 0
    /\ v_text = <<>>
    /\ v_continuation = FALSE
    /\ v_is_goodbye = FALSE
    /\ v_start_time = 0
    /\ loops = 0
    /\ heard_wake = FALSE
    /\ after_goodbye = FALSE
    /\ v_chain = <<>>
    /\ last_processed_query = <<>>
    /\ last_processed_time = 0
    /\ interrupt_context = <<>>
    /\ current_chat_history = <<>>
    /\ ppc = "setup"
    /\ p_text = <<>>
    /\ p_continuation = FALSE
    /\ p_is_goodbye = FALSE
    /\ p_response = <<>>
    /\ p_interrupted = FALSE
    /\ p_context = <<>>
    /\ p_count = 0
    /\ starts_read = 0
    /\ finishes_read = 0
    /\ llm_prompt = <<>>
    /\ llm_calls = 0
    /\ round_decs = 0
    /\ pending_interrupted = <<>>
    /\ finish_late = FALSE
    /\ rounds = <<>>
    /\ osc_message = <<>>
    /\ p_logged = "none"
    /\ llm_stream = <<>>
    /\ response_text = <<>>

\* the two workers constructed, and main of s2s_pipeline about to play a
\* response
InitState == InitWorkers /\ PlaybackIdle

Init == InitState /\ scenario = "bargein"

InitDialogue == InitState /\ scenario = "dialogue"

InitFaults == InitState /\ scenario = "faults"

InitPlayback == InitState /\ scenario = "playback"

InitInterrupts == InitState /\ scenario = "interrupts"

InitStream == InitState /\ scenario = "stream"

InitTimeout == InitState /\ scenario \in {"reset", "noreset"}

InitWebsearch == InitState /\ scenario \in {"websearch", "nowebsearch"}

\* s2s_pipeline.main before its loop
InitMainLoop ==
    /\ InitWorkers
    /\ scenario = "mainloop"
    /\ mpc = "loop_top"
    /\ PlayerIdle
    /\ MainLoopIdle

\* the items a producer may put: {"text", "marker", "continuation",
\* "is_goodbye", "start_time"}
QueueItems ==
    {WorkItem(text, marker, FALSE, FALSE, StartTime) :
        text \in {T_A, T_HEY}, marker \in {"start", "finish"}}

\* the queues of at most n items
RECURSIVE Queues(_)
Queues(n) ==
    IF n = 0 THEN {<<>>}
    ELSE LET shorter == Queues(n - 1)
         IN  shorter \cup {Append(queue, item) :
                               queue \in shorter, item \in QueueItems}

\* pipeline_worker_func at the top of its loop, after the handshake, on a
\* command queue that need not come from run_loop (a malformed or
\* desynchronised producer) and with no or one barge-in counted
InitRequeue ==
    /\ scenario = "requeue"
    /\ command_queue \in Queues(MaxQueue)
    /\ interrupt_count \in {0, 1}
    /\ incs = [i \in 1..interrupt_count |-> [round |-> 0, at |-> "idle"]]
    /\ decs = 0
    /\ playback_active = 0
    /\ voice_setup_event = TRUE
    /\ pipeline_setup_event = TRUE
    /\ now = StartTime
    /\ ticks = 0
    /\ ask_wakeword = TRUE
    /\ first_loop = TRUE
    /\ last_command_time = 0
    /\ prev_text = <<>>
    /\ vpc = "loop_top"
    /\ v_duration = 0
    /\ v_text = <<>>
    /\ v_continuation = FALSE
    /\ v_is_goodbye = FALSE
    /\ v_start_time = 0
    /\ loops = 0
    /\ heard_wake = FALSE
    /\ after_goodbye = FALSE
    /\ v_chain = <<>>
    /\ last_processed_query = <<>>
    /\ last_processed_time = 0
    /\ interrupt_context = <<>>
    /\ current_chat_history = <<>>
    /\ ppc = "idle"
    /\ p_text = <<>>
    /\ p_continuation = FALSE
    /\ p_is_goodbye = FALSE
    /\ p_response = <<>>
    /\ p_interrupted = FALSE
    /\ p_context = <<>>
    /\ p_count = 0
    /\ starts_read = 0
    /\ finishes_read = 0
    /\ llm_prompt = <<>>
    /\ llm_calls = 0
    /\ round_decs = 0
    /\ pending_interrupted = <<>>
    /\ finish_late = FALSE
    /\ rounds = <<>>
    /\ osc_message = <<>>
    /\ p_logged = "none"
    /\ llm_stream = <<>>
    /\ response_text = <<>>
    /\ PlaybackIdle

\* ------------------------------------------------------------------------
\* The clock
\* ------------------------------------------------------------------------
Tick ==
    /\ ticks < TickBound
    /\ now' = now + LongDelay
    /\ ticks' = ticks + 1
    /\ UNCHANGED <<scenario, shared, voice, pipeline,
                   playback>>

\* ------------------------------------------------------------------------
\* CaptureWorker: VoiceInputModule.run_loop
\* ------------------------------------------------------------------------
\* run_loop: voice_setup_event.set()
VoiceSetup ==
    /\ vpc = "setup"
    /\ voice_setup_event' = TRUE
    /\ vpc' = "wait_pipeline"
    /\ UNCHANGED <<command_queue, interrupt_count, counted, playback_active,
                   pipeline_setup_event, clock, vfields, v_duration, v_text,
                   v_continuation, v_is_goodbye, v_start_time, loops,
                   heard_wake, after_goodbye, v_chain, pipeline,
                   osc_message, playback>>

\* VoiceWaitPipeline going on without pipeline_setup_event.wait()
VoiceWaitPipeline_NoWait ==
    /\ vpc = "wait_pipeline"
    /\ vpc' = "loop_top"
    /\ UNCHANGED <<shared, clock, vfields, v_duration, v_text, v_continuation,
                   v_is_goodbye, v_start_time, loops, heard_wake, after_goodbye,
                   v_chain, pipeline, playback>>

\* run_loop: pipeline_setup_event.wait()
VoiceWaitPipeline ==
    /\ vpc = "wait_pipeline"
    /\ pipeline_setup_event
    /\ vpc' = "loop_top"
    /\ UNCHANGED <<shared, clock, vfields, v_duration, v_text, v_continuation,
                   v_is_goodbye, v_start_time, loops, heard_wake, after_goodbye,
                   v_chain, pipeline,
                   playback>>

\* should_reset_wakeword with a test that the timeout is nonzero
should_reset_wakeword_IfEnabled ==
    ResetTime > 0 /\ (now - last_command_time) > ResetTime

\* VoiceInputModule.should_reset_wakeword
should_reset_wakeword == (now - last_command_time) > ResetTime

\* run_loop: "if self.ask_wakeword and not command_queue.empty():
\*               self.interrupt_count.value += 1"
\* with the value of self.ask_wakeword at that line; the count it leaves
BargeInTest(ask) ==
    IF ask /\ command_queue # <<>>
    THEN interrupt_count + 1
    ELSE interrupt_count

\* the history of the counter after a step of the voice worker that leaves
\* it at count: one more entry for a += 1
Incremented(count) ==
    /\ incs' = IF count = interrupt_count + 1
               THEN Append(incs, [round |-> starts_read, at |-> ppc])
               ELSE incs
    /\ decs' = decs

\* run_loop, top of the while: the timeout test (with osc.clear_message) and
\* "if self.ask_wakeword"; when no wake word is asked for, on to the barge-in
\* test
VoiceLoopTop ==
    /\ vpc = "loop_top"
    /\ loops < LoopBound
    /\ loops' = loops + 1
    /\ ask_wakeword' = IF should_reset_wakeword THEN TRUE ELSE ask_wakeword
    /\ osc_message' = IF should_reset_wakeword THEN <<>> ELSE osc_message
    /\ IF ask_wakeword'
       THEN vpc' = "listen" /\ UNCHANGED <<interrupt_count, counted>>
       ELSE /\ vpc' = "record"
            /\ interrupt_count' = BargeInTest(ask_wakeword')
            /\ Incremented(interrupt_count')
    /\ UNCHANGED <<command_queue, playback_active, voice_setup_event,
                   pipeline_setup_event, clock, first_loop, last_command_time,
                   prev_text, v_duration, v_text, v_continuation, v_is_goodbye,
                   v_start_time, heard_wake, after_goodbye, v_chain, pipeline,
                   playback>>

\* VoiceListenForWakeWord without "self.ask_wakeword = False"
VoiceListenForWakeWord_KeepsAsking ==
    /\ vpc = "listen"
    /\ last_command_time' = now
    /\ ask_wakeword' = ask_wakeword
    /\ heard_wake' = TRUE
    /\ interrupt_count' = BargeInTest(ask_wakeword')
    /\ Incremented(interrupt_count')
    /\ vpc' = "record"
    /\ UNCHANGED <<command_queue, playback_active, voice_setup_event,
                   pipeline_setup_event, clock, first_loop, prev_text,
                   v_duration, v_text, v_continuation, v_is_goodbye,
                   v_start_time, loops, after_goodbye, v_chain, pipeline,
                   osc_message, playback>>

\* VoiceInputModule.listen_for_wake_word returns when the wake word is heard;
\* then the barge-in test of run_loop
VoiceListenForWakeWord ==
    /\ vpc = "listen"
    /\ last_command_time' = now
    /\ ask_wakeword' = FALSE
    /\ heard_wake' = TRUE
    /\ interrupt_count' = BargeInTest(ask_wakeword')
    /\ Incremented(interrupt_count')
    /\ vpc' = "record"
    /\ UNCHANGED <<command_queue, playback_active, voice_setup_event,
                   pipeline_setup_event, clock, first_loop, prev_text,
                   v_duration, v_text, v_continuation, v_is_goodbye,
                   v_start_time, loops, after_goodbye, v_chain, pipeline,
                   osc_message, playback>>

\* VoiceInputModule.record_command: has_speech of a recording of d half seconds
\* (num_samples < sample_rate * (VOICE_THRESHOLD + SILENCE_THRESHOLD) is no speech)
HasSpeech(d) == ~(d < VOICE_THRESHOLD + SILENCE_THRESHOLD)

\* Recorder.record_command(ask_wakeword, command_queue, interrupt_count) of
\* src.voice_recorder, which is not among the sources.  From the specification:
\* the recorder returns after a silence window with the recording and its
\* duration, and a barge-in (a detection while the command queue is
\* non-empty) increments interruptCount exactly once, atomically.
RecorderRecordCommand(d, barge) ==
    /\ barge => (command_queue # <<>> /\ interrupt_count < MaxInterrupts)
    /\ interrupt_count' = IF barge THEN interrupt_count + 1 ELSE interrupt_count
    /\ Incremented(interrupt_count')
    /\ now' = now + d
    /\ v_duration' = d

\* VoiceRecordCommand asking for the wake word again after a recording
\* without speech
VoiceRecordCommand_ResetsWakeword ==
    /\ vpc = "record"
    /\ \E d \in RecordDurations, barge \in BargeIns :
          /\ RecorderRecordCommand(d, barge)
          /\ vpc' = IF HasSpeech(d) THEN "transcribe" ELSE "loop_top"
          /\ ask_wakeword' = IF HasSpeech(d) THEN ask_wakeword ELSE TRUE
    /\ UNCHANGED <<command_queue, playback_active, voice_setup_event,
                   pipeline_setup_event, ticks, scenario, first_loop,
                   last_command_time, prev_text, v_text,
                   v_continuation, v_is_goodbye, v_start_time, loops, heard_wake,
                   after_goodbye, v_chain, pipeline,
                   osc_message, playback>>

\* run_loop: record_command and "if not has_speech: continue"
VoiceRecordCommand ==
    /\ vpc = "record"
    /\ \E d \in RecordDurations, barge \in BargeIns :
          /\ RecorderRecordCommand(d, barge)
          /\ vpc' = IF HasSpeech(d) THEN "transcribe" ELSE "loop_top"
    /\ UNCHANGED <<command_queue, playback_active, voice_setup_event,
                   pipeline_setup_event, ticks, scenario, vfields, v_text,
                   v_continuation, v_is_goodbye, v_start_time, loops, heard_wake,
                   after_goodbye, v_chain, pipeline,
                   osc_message, playback>>

\* IsContinuation without the test "not self.first_loop"
IsContinuation_NoFirstLoop(time, duration) ==
    /\ ResetTime > 0
    /\ (time - duration - last_command_time) < CONTINUATION_THRESHOLD

\* VoiceInputModule.process_text_continuation: the test
IsContinuation(time, duration) ==
    /\ ResetTime > 0
    /\ ~first_loop
    /\ (time - duration - last_command_time) < CONTINUATION_THRESHOLD

\* VoiceInputModule.process_text_continuation: the text it returns
ContinuationText(time, text, duration) ==
    IF IsContinuation(time, duration) THEN Merge(prev_text, text) ELSE text

\* run_loop: transcribe_audio, "if not text: continue",
\* process_text_continuation, is_goodbye_phrase, command_start_time and
\* command_queue.put({... "marker": "start" ...})
VoiceTranscribe ==
    /\ vpc = "transcribe"
    /\ \E t \in Transcripts, e \in TranscribeDelays :
          /\ now' = now + e
          /\ IF t = <<>>
             THEN /\ vpc' = "loop_top"
                  /\ UNCHANGED <<vfields, v_text, v_continuation, v_is_goodbye,
                                 v_start_time, command_queue, v_chain>>
             ELSE /\ v_continuation' = IsContinuation(now', v_duration)
                  /\ v_text' = ContinuationText(now', t, v_duration)
                  /\ last_command_time' =
                         IF ~ask_wakeword THEN now' ELSE last_command_time
                  /\ prev_text' = v_text'
                  /\ first_loop' = FALSE
                  /\ v_is_goodbye' = is_goodbye_phrase(v_text')
                  /\ v_start_time' = now'
                  /\ command_queue' = Append(command_queue,
                         WorkItem(v_text', "start", v_continuation',
                                  v_is_goodbye', v_start_time'))
                  /\ v_chain' = IF v_continuation' THEN Append(v_chain, t)
                                ELSE <<t>>
                  /\ vpc' = "put_finish"
                  /\ UNCHANGED ask_wakeword
    /\ UNCHANGED <<interrupt_count, counted, playback_active, voice_setup_event,
                   pipeline_setup_event, ticks, scenario, v_duration, loops,
                   heard_wake, after_goodbye, pipeline,
                   osc_message, playback>>

\* VoicePutFinish without the reset of the conversation state on a goodbye
VoicePutFinish_NoReset ==
    /\ vpc = "put_finish"
    /\ command_queue' = Append(command_queue,
           WorkItem(v_text, "finish", v_continuation, v_is_goodbye, v_start_time))
    /\ after_goodbye' = v_is_goodbye
    /\ heard_wake' = FALSE
    /\ v_chain' = IF v_is_goodbye THEN <<>> ELSE v_chain
    /\ vpc' = "loop_top"
    /\ UNCHANGED <<interrupt_count, counted, playback_active, voice_setup_event,
                   pipeline_setup_event, clock, vfields, v_duration, v_text,
                   v_continuation, v_is_goodbye, v_start_time, loops, pipeline,
                   osc_message, playback>>

\* VoicePutFinish leaving the loop iteration on a goodbye before the FINISH
\* is put
VoicePutFinish_NoFinishOnGoodbye ==
    /\ vpc = "put_finish"
    /\ IF v_is_goodbye
       THEN /\ ask_wakeword' = TRUE
            /\ first_loop' = TRUE
            /\ prev_text' = <<>>
            /\ last_command_time' = 0
            /\ UNCHANGED command_queue
       ELSE /\ command_queue' = Append(command_queue,
                   WorkItem(v_text, "finish", v_continuation, v_is_goodbye,
                            v_start_time))
            /\ UNCHANGED vfields
    /\ after_goodbye' = v_is_goodbye
    /\ heard_wake' = FALSE
    /\ v_chain' = IF v_is_goodbye THEN <<>> ELSE v_chain
    /\ vpc' = "loop_top"
    /\ UNCHANGED <<interrupt_count, counted, playback_active, voice_setup_event,
                   pipeline_setup_event, clock, v_duration, v_text,
                   v_continuation, v_is_goodbye, v_start_time, loops, pipeline,
                   osc_message, playback>>

\* VoicePutFinish clearing playback_active with the conversation state on a
\* goodbye
VoicePutFinish_ClearsPlayback ==
    /\ vpc = "put_finish"
    /\ command_queue' = Append(command_queue,
           WorkItem(v_text, "finish", v_continuation, v_is_goodbye, v_start_time))
    /\ IF v_is_goodbye
       THEN /\ ask_wakeword' = TRUE
            /\ first_loop' = TRUE
            /\ prev_text' = <<>>
            /\ last_command_time' = 0
            /\ playback_active' = 0
       ELSE UNCHANGED <<vfields, playback_active>>
    /\ after_goodbye' = v_is_goodbye
    /\ heard_wake' = FALSE
    /\ v_chain' = IF v_is_goodbye THEN <<>> ELSE v_chain
    /\ vpc' = "loop_top"
    /\ UNCHANGED <<interrupt_count, counted, voice_setup_event,
                   pipeline_setup_event, clock, v_duration, v_text,
                   v_continuation, v_is_goodbye, v_start_time, loops, pipeline,
                   osc_message, playback>>

\* run_loop: command_queue.put({... "marker": "finish" ...}) and
\* "if is_goodbye:" reset the conversation state
VoicePutFinish ==
    /\ vpc = "put_finish"
    /\ command_queue' = Append(command_queue,
           WorkItem(v_text, "finish", v_continuation, v_is_goodbye, v_start_time))
    /\ IF v_is_goodbye
       THEN /\ ask_wakeword' = TRUE
            /\ first_loop' = TRUE
            /\ prev_text' = <<>>
            /\ last_command_time' = 0
       ELSE UNCHANGED vfields
    /\ after_goodbye' = v_is_goodbye
    /\ heard_wake' = FALSE
    /\ v_chain' = IF v_is_goodbye THEN <<>> ELSE v_chain
    /\ vpc' = "loop_top"
    /\ UNCHANGED <<interrupt_count, counted, playback_active, voice_setup_event,
                   pipeline_setup_event, clock, v_duration, v_text,
                   v_continuation, v_is_goodbye, v_start_time, loops, pipeline,
                   osc_message, playback>>

\* run_loop has no try statement: an exception raised by record_command or
\* transcribe_audio leaves run_loop and voice_worker_func, and the process
\* ends
VoiceRaise ==
    /\ vpc \in {"record", "transcribe"}
    /\ vpc' = "terminated"
    /\ UNCHANGED <<shared, clock, vfields, v_duration, v_text, v_continuation,
                   v_is_goodbye, v_start_time, loops, heard_wake, after_goodbye,
                   v_chain, pipeline, playback>>

VoiceNext ==
    \/ VoiceSetup
    \/ VoiceWaitPipeline
    \/ VoiceLoopTop
    \/ VoiceListenForWakeWord
    \/ VoiceRecordCommand
    \/ VoiceTranscribe
    \/ VoicePutFinish

\* ------------------------------------------------------------------------
\* ResponseWorker: pipeline_worker_func
\* ------------------------------------------------------------------------
\* pipeline_worker_func: pipeline_setup_event.set()
PipelineSetup ==
    /\ ppc = "setup"
    /\ pipeline_setup_event' = TRUE
    /\ ppc' = "wait_voice"
    /\ UNCHANGED <<command_queue, interrupt_count, counted, playback_active,
                   voice_setup_event, clock, voice, pfields, p_text,
                   p_continuation, p_is_goodbye, p_response, p_interrupted,
                   p_context, p_count, phist, streaming,
                   osc_message, playback>>

\* pipeline_worker_func: voice_setup_event.wait()
PipelineWaitVoice ==
    /\ ppc = "wait_voice"
    /\ voice_setup_event
    /\ ppc' = "idle"
    /\ UNCHANGED <<shared, clock, voice, pfields, p_text, p_continuation,
                   p_is_goodbye, p_response, p_interrupted, p_context, p_count,
                   phist, streaming,
                   playback>>

\* Queue.get on a non-empty queue: the item handed back
QueueGet(queue) == Head(queue)

\* pipeline_worker_func: "if not command_queue.empty(): work = command_queue.get()"
\* and the dispatch on the marker
PipelineGet ==
    /\ ppc = "idle"
    /\ command_queue # <<>>
    /\ LET work == QueueGet(command_queue)
       IN  /\ command_queue' = Tail(command_queue)
           /\ p_text' = work.text
           /\ p_continuation' = work.continuation
           /\ p_is_goodbye' = work.is_goodbye
           /\ IF work.marker = "start"
              THEN /\ ppc' = "query"
                   /\ starts_read' = starts_read + 1
                   /\ UNCHANGED finishes_read
              ELSE /\ ppc' = "orphan"
                   /\ finishes_read' = finishes_read + 1
                   /\ UNCHANGED starts_read
    /\ UNCHANGED <<interrupt_count, counted, playback_active, voice_setup_event,
                   pipeline_setup_event, clock, voice, pfields, p_response,
                   p_interrupted, p_context, p_count, llm_prompt, streaming, llm_calls,
                   round_decs, pending_interrupted, finish_late, rounds,
                   osc_message, p_logged, playback>>

\* interrupt_actions without the test "text not in interrupt_context"
interrupt_actions_NoCheck(context, text) == Append(context, text)

\* IntelligenceModule.interrupt_actions: the interrupt context it leaves
interrupt_actions(context, text) ==
    IF \E i \in DOMAIN context : context[i] = text
    THEN context
    ELSE Append(context, text)

\* IsDuplicate comparing the texts as they are, without strip() and lower()
IsDuplicate_NoNormalize(text, continuation) ==
    /\ text = last_processed_query
    /\ now - last_processed_time < DEBOUNCE_WINDOW
    /\ ~continuation

\* process_query: the duplicate test
IsDuplicate(text, continuation) ==
    /\ Normalize(text) = Normalize(last_processed_query)
    /\ now - last_processed_time < DEBOUNCE_WINDOW
    /\ ~continuation

\* every interrupted exit of process_query: interrupt_actions and
\* return "", True
QueryInterrupted(context) ==
    /\ interrupt_context' = interrupt_actions(context, p_text)
    /\ p_response' = <<>>
    /\ p_interrupted' = TRUE
    /\ pending_interrupted' = p_text
    /\ ppc' = "after_query"

\* PipelineProcessQuery without the test of interrupt_count before the
\* pipeline starts
PipelineProcessQuery_NoPreflight ==
    /\ ppc = "query"
    /\ rounds' = Append(rounds, [text |-> p_text, continuation |-> p_continuation,
                                 time |-> now, generated |-> FALSE,
                                 score |-> -1, classified |-> FALSE])
    /\ round_decs' = 0
    /\ IF IsDuplicate(p_text, p_continuation)
       THEN /\ p_response' = <<>>
            /\ p_interrupted' = FALSE
            /\ ppc' = "after_query"
            /\ UNCHANGED <<last_processed_query, last_processed_time,
                           interrupt_context, pending_interrupted>>
       ELSE /\ last_processed_query' = p_text
            /\ last_processed_time' = now
            /\ LET capped == IF Len(interrupt_context) > INTERRUPT_CONTEXT_CAP
                             THEN <<>> ELSE interrupt_context
                   popped == IF p_continuation /\ capped # <<>>
                             THEN SubSeq(capped, 1, Len(capped) - 1) ELSE capped
               IN  IF ~is_meaningful_prompt(Strip(p_text))
                      /\ ~p_continuation /\ ~p_is_goodbye
                   THEN /\ interrupt_context' = capped
                        /\ p_response' = <<>>
                        /\ p_interrupted' = FALSE
                        /\ ppc' = "after_query"
                        /\ UNCHANGED pending_interrupted
                   ELSE IF p_is_goodbye
                   THEN /\ interrupt_context' = popped
                        /\ p_response' \in goodbye_responses
                        /\ p_interrupted' = FALSE
                        /\ ppc' = "after_query"
                        /\ UNCHANGED pending_interrupted
                   ELSE /\ interrupt_context' = popped
                        /\ ppc' = "rag"
                        /\ UNCHANGED <<p_response, p_interrupted,
                                       pending_interrupted>>
    /\ UNCHANGED <<shared, clock, voice, current_chat_history, p_text,
                   p_continuation, p_is_goodbye, p_context, p_count,
                   starts_read, finishes_read, llm_prompt, streaming, llm_calls, finish_late,
                   p_logged, playback>>

\* PipelineProcessQuery applying the meaningfulness filter to a goodbye as
\* well
PipelineProcessQuery_FiltersGoodbye ==
    /\ ppc = "query"
    /\ rounds' = Append(rounds, [text |-> p_text, continuation |-> p_continuation,
                                 time |-> now, generated |-> FALSE,
                                 score |-> -1, classified |-> FALSE])
    /\ round_decs' = 0
    /\ IF IsDuplicate(p_text, p_continuation)
       THEN /\ p_response' = <<>>
            /\ p_interrupted' = FALSE
            /\ ppc' = "after_query"
            /\ UNCHANGED <<last_processed_query, last_processed_time,
                           interrupt_context, pending_interrupted>>
       ELSE /\ last_processed_query' = p_text
            /\ last_processed_time' = now
            /\ LET capped == IF Len(interrupt_context) > INTERRUPT_CONTEXT_CAP
                             THEN <<>> ELSE interrupt_context
                   popped == IF p_continuation /\ capped # <<>>
                             THEN SubSeq(capped, 1, Len(capped) - 1) ELSE capped
               IN  IF ~is_meaningful_prompt(Strip(p_text))
                      /\ ~p_continuation
                   THEN /\ interrupt_context' = capped
                        /\ p_response' = <<>>
                        /\ p_interrupted' = FALSE
                        /\ ppc' = "after_query"
                        /\ UNCHANGED pending_interrupted
                   ELSE IF interrupt_count > 0
                   THEN QueryInterrupted(popped)
                   ELSE IF p_is_goodbye
                   THEN /\ interrupt_context' = popped
                        /\ p_response' \in goodbye_responses
                        /\ p_interrupted' = FALSE
                        /\ ppc' = "after_query"
                        /\ UNCHANGED pending_interrupted
                   ELSE /\ interrupt_context' = popped
                        /\ ppc' = "rag"
                        /\ UNCHANGED <<p_response, p_interrupted,
                                       pending_interrupted>>
    /\ UNCHANGED <<shared, clock, voice, current_chat_history, p_text,
                   p_continuation, p_is_goodbye, p_context, p_count,
                   starts_read, finishes_read, llm_prompt, streaming, llm_calls, finish_late,
                   p_logged, playback>>

\* IntelligenceModule.process_query, up to the goodbye short-circuit
PipelineProcessQuery ==
    /\ ppc = "query"
    /\ rounds' = Append(rounds, [text |-> p_text, continuation |-> p_continuation,
                                 time |-> now, generated |-> FALSE,
                                 score |-> -1, classified |-> FALSE])
    /\ round_decs' = 0
    /\ IF IsDuplicate(p_text, p_continuation)
       THEN /\ p_response' = <<>>
            /\ p_interrupted' = FALSE
            /\ ppc' = "after_query"
            /\ UNCHANGED <<last_processed_query, last_processed_time,
                           interrupt_context, pending_interrupted>>
       ELSE /\ last_processed_query' = p_text
            /\ last_processed_time' = now
            /\ LET capped == IF Len(interrupt_context) > INTERRUPT_CONTEXT_CAP
                             THEN <<>> ELSE interrupt_context
                   popped == IF p_continuation /\ capped # <<>>
                             THEN SubSeq(capped, 1, Len(capped) - 1) ELSE capped
               IN  IF ~is_meaningful_prompt(Strip(p_text))
                      /\ ~p_continuation /\ ~p_is_goodbye
                   THEN /\ interrupt_context' = capped
                        /\ p_response' = <<>>
                        /\ p_interrupted' = FALSE
                        /\ ppc' = "after_query"
                        /\ UNCHANGED pending_interrupted
                   ELSE IF interrupt_count > 0
                   THEN QueryInterrupted(popped)
                   ELSE IF p_is_goodbye
                   THEN /\ interrupt_context' = popped
                        /\ p_response' \in goodbye_responses
                        /\ p_interrupted' = FALSE
                        /\ ppc' = "after_query"
                        /\ UNCHANGED pending_interrupted
                   ELSE /\ interrupt_context' = popped
                        /\ ppc' = "rag"
                        /\ UNCHANGED <<p_response, p_interrupted,
                                       pending_interrupted>>
    /\ UNCHANGED <<shared, clock, voice, current_chat_history, p_text,
                   p_continuation, p_is_goodbye, p_context, p_count,
                   starts_read, finishes_read, llm_prompt, streaming, llm_calls, finish_late,
                   p_logged, playback>>

\* PipelineQueryRag going on to the search classification whatever the score
PipelineQueryRag_NoConfidenceTest ==
    /\ ppc = "rag"
    /\ \E score \in RagScores :
          IF interrupt_count > 0
          THEN QueryInterrupted(interrupt_context)
               /\ UNCHANGED <<p_context, rounds>>
          ELSE /\ IF EnableWebsearch
                  THEN p_context' = <<>> /\ ppc' = "decide"
                  ELSE p_context' = <<>> /\ ppc' = "generate"
               /\ rounds' = [rounds EXCEPT ![Len(rounds)].score = score]
               /\ UNCHANGED <<interrupt_context, p_response, p_interrupted,
                              pending_interrupted>>
    /\ UNCHANGED <<shared, clock, voice, last_processed_query,
                   last_processed_time, current_chat_history, p_text,
                   p_continuation, p_is_goodbye, p_count, starts_read,
                   finishes_read, llm_prompt, streaming, llm_calls, round_decs, finish_late,
                   p_logged, playback>>

\* process_query: query_rag and the branch on has_confident_info
PipelineQueryRag ==
    /\ ppc = "rag"
    /\ \E score \in RagScores :
          IF interrupt_count > 0
          THEN QueryInterrupted(interrupt_context)
               /\ UNCHANGED <<p_context, rounds>>
          ELSE /\ IF score >= RAG_CONFIDENCE_THRESHOLD
                  THEN p_context' = DOC /\ ppc' = "generate"
                  ELSE IF EnableWebsearch
                  THEN p_context' = <<>> /\ ppc' = "decide"
                  ELSE p_context' = <<>> /\ ppc' = "generate"
               /\ rounds' = [rounds EXCEPT ![Len(rounds)].score = score]
               /\ UNCHANGED <<interrupt_context, p_response, p_interrupted,
                              pending_interrupted>>
    /\ UNCHANGED <<shared, clock, voice, last_processed_query,
                   last_processed_time, current_chat_history, p_text,
                   p_continuation, p_is_goodbye, p_count, starts_read,
                   finishes_read, llm_prompt, streaming, llm_calls, round_decs, finish_late,
                   p_logged, playback>>

\* process_query: decide_websearch_needed (LLMWrapper.decide_websearch); when
\* a search is needed, perform_websearch begins: play_search_notification
\* sets playback_active
PipelineDecideWebsearch ==
    /\ ppc = "decide"
    /\ rounds' = [rounds EXCEPT ![Len(rounds)].classified = TRUE]
    /\ \E needs_search \in BOOLEAN :
          IF interrupt_count > 0
          THEN QueryInterrupted(interrupt_context) /\ UNCHANGED playback_active
          ELSE /\ IF needs_search
                  THEN playback_active' = 1 /\ ppc' = "notify"
                  ELSE UNCHANGED playback_active /\ ppc' = "generate"
               /\ UNCHANGED <<interrupt_context, p_response, p_interrupted,
                              pending_interrupted>>
    /\ UNCHANGED <<command_queue, interrupt_count, counted, voice_setup_event,
                   pipeline_setup_event, clock, voice, last_processed_query,
                   last_processed_time, current_chat_history, p_text,
                   p_continuation, p_is_goodbye, p_context, p_count,
                   starts_read, finishes_read, llm_prompt, streaming, llm_calls, round_decs,
                   finish_late,
                   osc_message, p_logged, playback>>

\* perform_websearch: play_search_notification synthesizes and plays the
\* notification and returns, interrupted or not, with playback_active cleared
PipelineSearchNotification ==
    /\ ppc = "notify"
    /\ playback_active' = 0
    /\ ppc' = "search"
    /\ UNCHANGED <<command_queue, interrupt_count, counted, voice_setup_event,
                   pipeline_setup_event, clock, voice, pfields, p_text,
                   p_continuation, p_is_goodbye, p_response, p_interrupted,
                   p_context, p_count, phist, streaming, osc_message,
                   playback>>

\* perform_websearch after the notification: search, fetch, add to RAG, query
\* again
PipelineWebsearch ==
    /\ ppc = "search"
    /\ UNCHANGED playback_active
    /\ \E results \in {<<>>, DOC} :
          IF interrupt_count > 0
          THEN QueryInterrupted(interrupt_context) /\ UNCHANGED p_context
          ELSE /\ p_context' = results
               /\ ppc' = "generate"
               /\ UNCHANGED <<interrupt_context, p_response, p_interrupted,
                              pending_interrupted>>
    /\ UNCHANGED <<command_queue, interrupt_count, counted, voice_setup_event,
                   pipeline_setup_event, clock, voice, last_processed_query,
                   last_processed_time, current_chat_history, p_text,
                   p_continuation, p_is_goodbye, p_count, starts_read,
                   finishes_read, llm_prompt, streaming, llm_calls, round_decs, finish_late,
                   rounds,
                   osc_message, p_logged, playback>>

\* send_to_llm: "<interrupt>" + entry + "</interrupt>\n" for every entry
RECURSIVE InterruptTags(_)
InterruptTags(context) ==
    IF context = <<>> THEN <<>>
    ELSE <<"<interrupt>">> \o Head(context) \o <<"</interrupt>", "\n">>
         \o InterruptTags(Tail(context))

\* send_to_llm: the text with the reasoning switch
NoThink(text) == IF ~ENABLE_THINK THEN text \o <<SP, "/no_think">> ELSE text

\* send_to_llm: the content of the user message that is sent
PromptContent(text, context, icontext) ==
    LET interrupt_text == InterruptTags(icontext) \o NoThink(text)
        prompt_modification ==
            IF context # <<>>
            THEN <<"<context>">> \o context \o <<"</context>", "\n", "\n">>
            ELSE InterruptTags(icontext)
    IN  prompt_modification \o interrupt_text

\* generate_response: the text of osc.send_message
THINKING == <<"thinking...">>

\* the chunk at position i of a completion stream
Chunk(i) == IF i = 1 THEN LLM_REPLY ELSE <<SP, "more">>

\* a completion stream of n chunks
Stream(n) == [i \in 1..n |-> Chunk(i)]

\* the streams client.chat.completions.create may hand back
LlmStreams == IF scenario = "stream" THEN {Stream(n) : n \in 0..MaxChunks}
              ELSE {Stream(1)}

\* send_to_llm after the loop "for chunk in stream": the filters leave the
\* text of the model as it is, the assistant message is appended to the chat
\* history and response_text is returned to generate_response
SendToLlmReturns(text, history) ==
    /\ current_chat_history' =
           Append(history, [role |-> "assistant", content |-> text])
    /\ ppc' = "llm_return"

\* SendToLlmChunk consuming the chunk without the test of interrupt_count
SendToLlmChunk_NoCheck(stream, text, history) ==
    /\ llm_stream' = Tail(stream)
    /\ response_text' = text \o Head(stream)
    /\ IF Tail(stream) = <<>>
       THEN SendToLlmReturns(response_text', history)
       ELSE current_chat_history' = history /\ ppc' = "stream"
    /\ UNCHANGED <<interrupt_context, p_response, p_interrupted>>

\* send_to_llm, one pass of "for chunk in stream" with stream not exhausted:
\* "if self.interrupt_count.value > 0: return None", which generate_response
\* and process_query turn into interrupt_actions and ("", True); otherwise
\* "response_text += data", and what follows the loop when this was the last
\* chunk
SendToLlmChunk(stream, text, history) ==
    IF interrupt_count > 0
    THEN /\ llm_stream' = stream
         /\ response_text' = text
         /\ current_chat_history' = history
         /\ QueryInterrupted(interrupt_context)
    ELSE /\ llm_stream' = Tail(stream)
         /\ response_text' = text \o Head(stream)
         /\ IF Tail(stream) = <<>>
            THEN SendToLlmReturns(response_text', history)
            ELSE current_chat_history' = history /\ ppc' = "stream"
         /\ UNCHANGED <<interrupt_context, p_response, p_interrupted>>

\* process_query: generate_response (osc.send_message) and
\* LLMWrapper.send_to_llm up to the first pass of "for chunk in stream"
PipelineGenerate ==
    /\ ppc = "generate"
    /\ osc_message' = THINKING
    /\ \E g \in GenerateDelays : now' = now + g
    /\ rounds' = [rounds EXCEPT ![Len(rounds)].generated = TRUE]
    /\ LET content == PromptContent(p_text, p_context, interrupt_context)
           user == [role |-> "user", content |-> content]
           history == Append(current_chat_history, user)
       IN  /\ llm_prompt' = content
           /\ llm_calls' = llm_calls + 1
           /\ \E stream \in LlmStreams :
                 IF stream = <<>>
                 THEN /\ llm_stream' = stream
                      /\ response_text' = <<>>
                      /\ SendToLlmReturns(<<>>, history)
                      /\ pending_interrupted' = <<>>
                      /\ UNCHANGED <<interrupt_context, p_response,
                                     p_interrupted>>
                 ELSE /\ SendToLlmChunk(stream, <<>>, history)
                      /\ IF interrupt_count > 0 THEN TRUE
                         ELSE pending_interrupted' = <<>>
    /\ UNCHANGED <<command_queue, interrupt_count, counted, playback_active,
                   voice_setup_event, pipeline_setup_event, ticks, scenario,
                   voice, last_processed_query,
                   last_processed_time, p_text, p_continuation, p_is_goodbye,
                   p_context, p_count, starts_read, finishes_read, round_decs,
                   finish_late,
                   p_logged, playback>>

\* PipelineStreamChunk consuming every chunk without the test of
\* interrupt_count
PipelineStreamChunk_NoCheck ==
    /\ ppc = "stream"
    /\ SendToLlmChunk_NoCheck(llm_stream, response_text, current_chat_history)
    /\ UNCHANGED <<shared, clock, voice, last_processed_query,
                   last_processed_time, p_text, p_continuation, p_is_goodbye,
                   p_context, p_count, phist>>
    /\ UNCHANGED playback

\* send_to_llm: a further pass of "for chunk in stream"
PipelineStreamChunk ==
    /\ ppc = "stream"
    /\ SendToLlmChunk(llm_stream, response_text, current_chat_history)
    /\ IF interrupt_count > 0
       THEN UNCHANGED <<starts_read, finishes_read, llm_prompt, llm_calls,
                        round_decs, finish_late, rounds, p_logged>>
       ELSE UNCHANGED phist
    /\ UNCHANGED <<shared, clock, voice, last_processed_query,
                   last_processed_time, p_text, p_continuation, p_is_goodbye,
                   p_context, p_count, playback>>

\* generate_response after send_to_llm has returned response_text:
\* "if response is None or self.interrupt_count.value > 0: return '', True",
\* which process_query turns into interrupt_actions and ("", True)
PipelineLlmReturn ==
    /\ ppc = "llm_return"
    /\ IF interrupt_count > 0
       THEN QueryInterrupted(interrupt_context)
       ELSE /\ p_response' = response_text
            /\ p_interrupted' = FALSE
            /\ ppc' = "after_query"
            /\ UNCHANGED <<interrupt_context, pending_interrupted>>
    /\ UNCHANGED <<shared, clock, voice, last_processed_query,
                   last_processed_time, current_chat_history, p_text,
                   p_continuation, p_is_goodbye, p_context, p_count,
                   starts_read, finishes_read, llm_prompt, llm_calls,
                   round_decs, finish_late, rounds, p_logged, streaming,
                   playback>>

\* PipelineAfterQuery without interrupt_context.clear() when no response is
\* played
PipelineAfterQuery_NoClear ==
    /\ ppc = "after_query"
    /\ IF ~p_interrupted /\ p_response # <<>>
       THEN /\ playback_active' = 1
            /\ ppc' = "synthesize"
       ELSE /\ ppc' = "get_finish"
            /\ UNCHANGED playback_active
    /\ UNCHANGED <<command_queue, interrupt_count, counted, voice_setup_event,
                   pipeline_setup_event, clock, voice, pfields, p_text,
                   p_continuation, p_is_goodbye, p_response, p_interrupted,
                   p_context, p_count, phist, streaming,
                   osc_message, playback>>

\* PipelineAfterQuery clearing interrupt_context only after a round that was
\* not interrupted
PipelineAfterQuery_ClearUnlessInterrupted ==
    /\ ppc = "after_query"
    /\ IF ~p_interrupted /\ p_response # <<>>
       THEN /\ playback_active' = 1
            /\ ppc' = "synthesize"
            /\ UNCHANGED interrupt_context
       ELSE /\ interrupt_context' = IF p_interrupted THEN interrupt_context
                                    ELSE <<>>
            /\ ppc' = "get_finish"
            /\ UNCHANGED playback_active
    /\ UNCHANGED <<command_queue, interrupt_count, counted, voice_setup_event,
                   pipeline_setup_event, clock, voice, last_processed_query,
                   last_processed_time, current_chat_history, p_text,
                   p_continuation, p_is_goodbye, p_response, p_interrupted,
                   p_context, p_count, phist, streaming,
                   osc_message, playback>>

\* pipeline_worker_func after process_query returns:
\* "if not interrupted and response: playback_active.value = 1" and on to
\* synthesize_and_play; otherwise interrupt_context.clear()
PipelineAfterQuery ==
    /\ ppc = "after_query"
    /\ IF ~p_interrupted /\ p_response # <<>>
       THEN /\ playback_active' = 1
            /\ ppc' = "synthesize"
            /\ UNCHANGED interrupt_context
       ELSE /\ interrupt_context' = <<>>
            /\ ppc' = "get_finish"
            /\ UNCHANGED playback_active
    /\ UNCHANGED <<command_queue, interrupt_count, counted, voice_setup_event,
                   pipeline_setup_event, clock, voice, last_processed_query,
                   last_processed_time, current_chat_history, p_text,
                   p_continuation, p_is_goodbye, p_response, p_interrupted,
                   p_context, p_count, phist, streaming,
                   osc_message, playback>>

\* synthesize_and_play: tts.synthesize and the test that follows it; when
\* interrupted, back in pipeline_worker_func: playback_active.value = 0 and
\* interrupt_context.clear(); otherwise osc.send_message(text)
PipelineSynthesize ==
    /\ ppc = "synthesize"
    /\ IF interrupt_count > 0
       THEN /\ p_interrupted' = TRUE
            /\ pending_interrupted' = p_text
            /\ playback_active' = 0
            /\ interrupt_context' = <<>>
            /\ ppc' = "get_finish"
            /\ UNCHANGED osc_message
       ELSE /\ ppc' = "play"
            /\ osc_message' = p_response
            /\ UNCHANGED <<p_interrupted, pending_interrupted, playback_active,
                           interrupt_context>>
    /\ UNCHANGED <<command_queue, interrupt_count, counted, voice_setup_event,
                   pipeline_setup_event, clock, voice, last_processed_query,
                   last_processed_time, current_chat_history, p_text,
                   p_continuation, p_is_goodbye, p_response, p_context, p_count,
                   starts_read, finishes_read, llm_prompt, streaming, llm_calls, round_decs,
                   finish_late, rounds,
                   p_logged, playback>>

\* synthesize_and_play: play_wav_file and the test that follows it, then
\* pipeline_worker_func: playback_active.value = 0 and interrupt_context.clear()
PipelinePlay ==
    /\ ppc = "play"
    /\ p_interrupted' = (interrupt_count > 0)
    /\ pending_interrupted' = IF interrupt_count > 0 THEN p_text
                              ELSE pending_interrupted
    /\ playback_active' = 0
    /\ interrupt_context' = <<>>
    /\ ppc' = "get_finish"
    /\ UNCHANGED <<command_queue, interrupt_count, counted, voice_setup_event,
                   pipeline_setup_event, clock, voice, last_processed_query,
                   last_processed_time, current_chat_history, p_text,
                   p_continuation, p_is_goodbye, p_response, p_context, p_count,
                   starts_read, finishes_read, llm_prompt, streaming, llm_calls, round_decs,
                   finish_late, rounds,
                   osc_message, p_logged, playback>>

\* PipelineGetFinish without the decrement after an interrupted round
PipelineGetFinish_NoReconcile ==
    /\ ppc = "get_finish"
    /\ IF command_queue = <<>>
       THEN /\ ppc' = "idle"
            /\ finish_late' = TRUE
            /\ p_logged' = "error"
            /\ UNCHANGED <<command_queue, finishes_read>>
       ELSE /\ command_queue' = Tail(command_queue)
            /\ finishes_read' = finishes_read + 1
            /\ finish_late' = FALSE
            /\ p_logged' = "none"
            /\ ppc' = "idle"
    /\ UNCHANGED <<interrupt_count, counted, playback_active, voice_setup_event,
                   pipeline_setup_event, clock, voice, pfields, p_text,
                   p_continuation, p_is_goodbye, p_response, p_interrupted,
                   p_context, p_count, starts_read, llm_prompt, streaming, llm_calls,
                   round_decs, pending_interrupted, rounds,
                   osc_message, playback>>

\* PipelineGetFinish decrementing for every matching FINISH, interrupted or not
PipelineGetFinish_AlwaysDecrement ==
    /\ ppc = "get_finish"
    /\ IF command_queue = <<>>
       THEN /\ ppc' = "idle"
            /\ finish_late' = TRUE
            /\ p_logged' = "error"
            /\ UNCHANGED <<command_queue, finishes_read>>
       ELSE /\ command_queue' = Tail(command_queue)
            /\ finishes_read' = finishes_read + 1
            /\ finish_late' = FALSE
            /\ p_logged' = "none"
            /\ ppc' = "dec_read"
    /\ UNCHANGED <<interrupt_count, counted, playback_active, voice_setup_event,
                   pipeline_setup_event, clock, voice, pfields, p_text,
                   p_continuation, p_is_goodbye, p_response, p_interrupted,
                   p_context, p_count, starts_read, llm_prompt, streaming, llm_calls,
                   round_decs, pending_interrupted, rounds,
                   osc_message, playback>>

\* PipelineGetFinish without "except Empty": the timeout of the bounded read
\* ends pipeline_worker_func
PipelineGetFinish_NoExceptEmpty ==
    /\ ppc = "get_finish"
    /\ IF command_queue = <<>>
       THEN /\ ppc' = "terminated"
            /\ UNCHANGED <<command_queue, finishes_read, finish_late, p_logged>>
       ELSE /\ command_queue' = Tail(command_queue)
            /\ finishes_read' = finishes_read + 1
            /\ finish_late' = FALSE
            /\ p_logged' = "none"
            /\ ppc' = IF p_interrupted THEN "dec_read" ELSE "idle"
    /\ UNCHANGED <<interrupt_count, counted, playback_active, voice_setup_event,
                   pipeline_setup_event, clock, voice, pfields, p_text,
                   p_continuation, p_is_goodbye, p_response, p_interrupted,
                   p_context, p_count, starts_read, llm_prompt, streaming, llm_calls,
                   round_decs, pending_interrupted, rounds,
                   osc_message, playback>>

\* PipelineGetFinish dropping an item that is not the expected FINISH
PipelineGetFinish_DropMismatch ==
    /\ ppc = "get_finish"
    /\ IF command_queue = <<>>
       THEN /\ ppc' = "idle"
            /\ finish_late' = TRUE
            /\ p_logged' = "error"
            /\ UNCHANGED <<command_queue, finishes_read>>
       ELSE LET finish_work == QueueGet(command_queue)
            IN  IF finish_work.marker = "finish" /\ finish_work.text = p_text
                THEN /\ command_queue' = Tail(command_queue)
                     /\ finishes_read' = finishes_read + 1
                     /\ finish_late' = FALSE
                     /\ p_logged' = "none"
                     /\ ppc' = IF p_interrupted THEN "dec_read" ELSE "idle"
                ELSE /\ command_queue' = Tail(command_queue)
                     /\ p_logged' = "warning"
                     /\ ppc' = "idle"
                     /\ UNCHANGED <<finishes_read, finish_late>>
    /\ UNCHANGED <<interrupt_count, counted, playback_active, voice_setup_event,
                   pipeline_setup_event, clock, voice, pfields, p_text,
                   p_continuation, p_is_goodbye, p_response, p_interrupted,
                   p_context, p_count, starts_read, llm_prompt, streaming, llm_calls,
                   round_decs, pending_interrupted, rounds,
                   osc_message, playback>>

\* pipeline_worker_func: finish_work = command_queue.get(timeout=0.1) and the
\* test of the marker; except Empty when nothing arrives in time
PipelineGetFinish ==
    /\ ppc = "get_finish"
    /\ IF command_queue = <<>>
       THEN /\ ppc' = "idle"
            /\ finish_late' = TRUE
            /\ p_logged' = "error"
            /\ UNCHANGED <<command_queue, finishes_read>>
       ELSE LET finish_work == QueueGet(command_queue)
            IN  IF finish_work.marker = "finish" /\ finish_work.text = p_text
                THEN /\ command_queue' = Tail(command_queue)
                     /\ finishes_read' = finishes_read + 1
                     /\ finish_late' = FALSE
                     /\ p_logged' = "none"
                     /\ ppc' = IF p_interrupted THEN "dec_read" ELSE "idle"
                ELSE /\ command_queue' = Append(Tail(command_queue), finish_work)
                     /\ p_logged' = "warning"
                     /\ ppc' = "idle"
                     /\ UNCHANGED <<finishes_read, finish_late>>
    /\ UNCHANGED <<interrupt_count, counted, playback_active, voice_setup_event,
                   pipeline_setup_event, clock, voice, pfields, p_text,
                   p_continuation, p_is_goodbye, p_response, p_interrupted,
                   p_context, p_count, starts_read, llm_prompt, streaming, llm_calls,
                   round_decs, pending_interrupted, rounds,
                   osc_message, playback>>

\* PipelineOrphanFinish without the test of interrupt_count.value > 0
PipelineOrphanFinish_NoGuard ==
    /\ ppc = "orphan"
    /\ ppc' = "dec_read"
    /\ UNCHANGED <<shared, clock, voice, pfields, p_text, p_continuation,
                   p_is_goodbye, p_response, p_interrupted, p_context, p_count,
                   phist, streaming,
                   playback>>

\* pipeline_worker_func: "elif marker == 'finish': if interrupt_count.value > 0"
PipelineOrphanFinish ==
    /\ ppc = "orphan"
    /\ ppc' = IF interrupt_count > 0 THEN "dec_read" ELSE "idle"
    /\ UNCHANGED <<shared, clock, voice, pfields, p_text, p_continuation,
                   p_is_goodbye, p_response, p_interrupted, p_context, p_count,
                   phist, streaming,
                   playback>>

\* "interrupt_count.value -= 1": the read of the value
PipelineDecrementRead ==
    /\ ppc = "dec_read"
    /\ p_count' = interrupt_count
    /\ ppc' = "dec_write"
    /\ UNCHANGED <<shared, clock, voice, pfields, p_text, p_continuation,
                   p_is_goodbye, p_response, p_interrupted, p_context, phist, streaming,
                   playback>>

\* "interrupt_count.value -= 1": the write of the value less one
PipelineDecrementWrite ==
    /\ ppc = "dec_write"
    /\ interrupt_count' = p_count - 1
    /\ decs' = decs + 1
    /\ incs' = incs
    /\ round_decs' = round_decs + 1
    /\ ppc' = "idle"
    /\ UNCHANGED <<command_queue, playback_active, voice_setup_event,
                   pipeline_setup_event, clock, voice, pfields, p_text,
                   p_continuation, p_is_goodbye, p_response, p_interrupted,
                   p_context, p_count, starts_read, finishes_read, llm_prompt, streaming,
                   llm_calls, pending_interrupted, finish_late, rounds,
                   osc_message, p_logged, playback>>

\* pipeline_worker_func: "except Exception as e" around the read of the
\* FINISH: the read raised something other than Empty; the item it was about
\* to hand back, if any, is lost or stays on the queue
PipelineGetFinishError ==
    /\ ppc = "get_finish"
    /\ \E lost \in BOOLEAN :
          /\ lost => command_queue # <<>>
          /\ command_queue' = IF lost THEN Tail(command_queue)
                               ELSE command_queue
    /\ p_logged' = "error"
    /\ ppc' = "idle"
    /\ UNCHANGED <<interrupt_count, counted, playback_active, voice_setup_event,
                   pipeline_setup_event, osc_message, clock, voice, pfields,
                   p_text, p_continuation, p_is_goodbye, p_response,
                   p_interrupted, p_context, p_count, starts_read,
                   finishes_read, llm_prompt, streaming, llm_calls, round_decs,
                   pending_interrupted, finish_late, rounds, playback>>

\* pipeline_worker_func has no try statement around process_query and
\* synthesize_and_play: an exception raised inside them (rag.query,
\* send_to_llm, tts.synthesize, play_wav_file) leaves pipeline_worker_func,
\* and the process ends
PipelineRaise ==
    /\ ppc \in {"rag", "generate", "synthesize", "play"}
    /\ ppc' = "terminated"
    /\ UNCHANGED <<shared, clock, voice, pfields, p_text, p_continuation,
                   p_is_goodbye, p_response, p_interrupted, p_context, p_count,
                   phist, streaming, playback>>

PipelineNext ==
    \/ PipelineSetup
    \/ PipelineWaitVoice
    \/ PipelineGet
    \/ PipelineProcessQuery
    \/ PipelineQueryRag
    \/ PipelineDecideWebsearch
    \/ PipelineSearchNotification
    \/ PipelineWebsearch
    \/ PipelineGenerate
    \/ PipelineLlmReturn
    \/ PipelineAfterQuery
    \/ PipelineSynthesize
    \/ PipelinePlay
    \/ PipelineGetFinish
    \/ PipelineOrphanFinish
    \/ PipelineDecrementRead
    \/ PipelineDecrementWrite

\* ------------------------------------------------------------------------
\* s2s_pipeline.main: the interruptible playback of a response
\* ------------------------------------------------------------------------
\* what the playback leaves alone
orchestrated == <<shared, clock, voice, pipeline, mainloop>>

\* wav_file.getframerate(): the samples of one chunk of pcm_list
sample_rate == 2

\* play_wav_file_interruptible: split_list, as the lengths of the chunks of a
\* list of num_samples samples
RECURSIVE split_list(_, _)
split_list(num_samples, x) ==
    IF num_samples = 0 THEN <<>>
    ELSE IF num_samples <= x THEN <<num_samples>>
    ELSE <<x>> \o split_list(num_samples - x, x)

\* main: interrupt_event = threading.Event() and wake_word_thread.start()
\* (with recorder.start() of the listener); the call of
\* play_wav_file_interruptible that follows starts with fresh locals
MainStartListener ==
    /\ mpc = "start_listener"
    /\ interrupt_event' = FALSE
    /\ lpc' = "test"
    /\ mpc' = "open"
    /\ playback_completed' = "none"
    /\ pcm_list' = <<>>
    /\ total_written_length' = 0
    /\ interrupted' = FALSE
    /\ completion_event' = FALSE
    /\ fpc' = "idle"
    /\ detected' = FALSE
    /\ set_before_flushed' = FALSE
    /\ set_with_audio_left' = FALSE
    /\ writes_after_set' = 0
    /\ playable' = FALSE
    /\ UNCHANGED orchestrated

\* play_wav_file_interruptible up to the for loop: wave.open, the tests of the
\* format ("return False") and split_list
PlayOpen ==
    /\ mpc = "open"
    /\ \E num_samples \in 0..MaxSamples, num_channels \in {1, 2} :
          IF num_channels # 1 \/ num_samples = 0
          THEN /\ playback_completed' = "False"
               /\ mpc' = "after_play"
               /\ UNCHANGED <<pcm_list, playable>>
          ELSE /\ pcm_list' = split_list(num_samples, sample_rate)
               /\ playable' = TRUE
               /\ mpc' = "chunk_check"
               /\ UNCHANGED playback_completed
    /\ UNCHANGED <<interrupt_event, total_written_length, interrupted,
                   completion_event, fpc, lpc, detected, set_before_flushed,
                   set_with_audio_left, writes_after_set, orchestrated>>

\* "for pcm_sublist in pcm_list: if interrupt_event and
\* interrupt_event.is_set()"; when set: break, speaker.stop(), return False
PlayChunkCheck ==
    /\ mpc = "chunk_check"
    /\ IF interrupt_event
       THEN /\ interrupted' = TRUE
            /\ playback_completed' = "False"
            /\ mpc' = "after_play"
            /\ UNCHANGED total_written_length
       ELSE /\ total_written_length' = 0
            /\ mpc' = "write_check"
            /\ UNCHANGED <<interrupted, playback_completed>>
    /\ UNCHANGED <<interrupt_event, pcm_list, completion_event, fpc, lpc,
                   detected, set_before_flushed, set_with_audio_left,
                   writes_after_set, playable, orchestrated>>

\* PlayWriteCheck going on to speaker.write without the test of the event
PlayWriteCheck_NoCheck ==
    /\ mpc = "write_check"
    /\ mpc' = "write"
    /\ UNCHANGED <<interrupt_event, playback_completed, pcm_list,
                   total_written_length, interrupted, completion_event, fpc,
                   lpc, detected, set_before_flushed, set_with_audio_left,
                   writes_after_set, playable, orchestrated>>

\* "while total_written_length < sublsit_length: if interrupt_event and
\* interrupt_event.is_set()"; when set: break, speaker.stop(), return False
PlayWriteCheck ==
    /\ mpc = "write_check"
    /\ IF interrupt_event
       THEN /\ interrupted' = TRUE
            /\ playback_completed' = "False"
            /\ mpc' = "after_play"
       ELSE /\ mpc' = "write"
            /\ UNCHANGED <<interrupted, playback_completed>>
    /\ UNCHANGED <<interrupt_event, pcm_list, total_written_length,
                   completion_event, fpc, lpc, detected, set_before_flushed,
                   set_with_audio_left, writes_after_set, playable,
                   orchestrated>>

\* "written_length = speaker.write(pcm_sublist[total_written_length:])",
\* which may take a part of what is left, and the tests of the two loops
PlayWrite ==
    /\ mpc = "write"
    /\ \E written_length \in 1..(Head(pcm_list) - total_written_length) :
          /\ total_written_length' = total_written_length + written_length
          /\ IF total_written_length' < Head(pcm_list)
             THEN mpc' = "write_check" /\ UNCHANGED pcm_list
             ELSE /\ pcm_list' = Tail(pcm_list)
                  /\ mpc' = IF pcm_list' # <<>> THEN "chunk_check"
                            ELSE "start_flush"
    /\ writes_after_set' = IF detected THEN writes_after_set + 1
                           ELSE writes_after_set
    /\ UNCHANGED <<interrupt_event, playback_completed, interrupted,
                   completion_event, fpc, lpc, detected, set_before_flushed,
                   set_with_audio_left, playable, orchestrated>>

\* completion_event = threading.Event() and worker_thread.start()
PlayStartFlush ==
    /\ mpc = "start_flush"
    /\ completion_event' = FALSE
    /\ fpc' = "flush"
    /\ mpc' = "flush_test"
    /\ UNCHANGED <<interrupt_event, playback_completed, pcm_list,
                   total_written_length, interrupted, lpc, detected,
                   set_before_flushed, set_with_audio_left, writes_after_set,
                   playable, orchestrated>>

\* worker_function: speaker.flush() returns and completion_event.set()
FlushWorker ==
    /\ fpc = "flush"
    /\ completion_event' = TRUE
    /\ fpc' = "done"
    /\ UNCHANGED <<mpc, interrupt_event, playback_completed, pcm_list,
                   total_written_length, interrupted, lpc, detected,
                   set_before_flushed, set_with_audio_left, writes_after_set,
                   playable, orchestrated>>

\* "while not completion_event.is_set()"
PlayFlushTest ==
    /\ mpc = "flush_test"
    /\ mpc' = IF completion_event THEN "join_worker" ELSE "flush_check"
    /\ UNCHANGED <<interrupt_event, playback_completed, pcm_list,
                   total_written_length, interrupted, completion_event, fpc,
                   lpc, detected, set_before_flushed, set_with_audio_left,
                   writes_after_set, playable, orchestrated>>

\* in the flush loop: "if interrupt_event and interrupt_event.is_set()"; when
\* set: break, speaker.stop(), return False
PlayFlushCheck ==
    /\ mpc = "flush_check"
    /\ IF interrupt_event
       THEN /\ interrupted' = TRUE
            /\ playback_completed' = "False"
            /\ mpc' = "after_play"
       ELSE /\ mpc' = "flush_wait"
            /\ UNCHANGED <<interrupted, playback_completed>>
    /\ UNCHANGED <<interrupt_event, pcm_list, total_written_length,
                   completion_event, fpc, lpc, detected, set_before_flushed,
                   set_with_audio_left, writes_after_set, playable,
                   orchestrated>>

\* completion_event.wait(timeout=0.1) returns, set or not
PlayFlushWait ==
    /\ mpc = "flush_wait"
    /\ mpc' = "flush_test"
    /\ UNCHANGED <<interrupt_event, playback_completed, pcm_list,
                   total_written_length, interrupted, completion_event, fpc,
                   lpc, detected, set_before_flushed, set_with_audio_left,
                   writes_after_set, playable, orchestrated>>

\* worker_thread.join(), speaker.stop() and "return True"
PlayJoinWorker ==
    /\ mpc = "join_worker"
    /\ fpc = "done"
    /\ playback_completed' = "True"
    /\ mpc' = "after_play"
    /\ UNCHANGED <<interrupt_event, pcm_list, total_written_length,
                   interrupted, completion_event, fpc, lpc, detected,
                   set_before_flushed, set_with_audio_left, writes_after_set,
                   playable, orchestrated>>

\* MainAfterPlay without interrupt_event.set()
MainAfterPlay_NoSet ==
    /\ mpc = "after_play"
    /\ mpc' = "join_listener"
    /\ UNCHANGED <<interrupt_event, playback_completed, pcm_list,
                   total_written_length, interrupted, completion_event, fpc,
                   lpc, detected, set_before_flushed, set_with_audio_left,
                   writes_after_set, playable, orchestrated>>

\* main: "if playback_completed: interrupt_event.set()"
MainAfterPlay ==
    /\ mpc = "after_play"
    /\ interrupt_event' = IF playback_completed = "True" THEN TRUE
                          ELSE interrupt_event
    /\ mpc' = "join_listener"
    /\ UNCHANGED <<playback_completed, pcm_list, total_written_length,
                   interrupted, completion_event, fpc, lpc, detected,
                   set_before_flushed, set_with_audio_left, writes_after_set,
                   playable, orchestrated>>

\* main: wake_word_thread.join() returns
MainJoinListener ==
    /\ mpc = "join_listener"
    /\ lpc = "done"
    /\ mpc' = "joined"
    /\ UNCHANGED <<interrupt_event, playback_completed, pcm_list,
                   total_written_length, interrupted, completion_event, fpc,
                   lpc, detected, set_before_flushed, set_with_audio_left,
                   writes_after_set, playable, orchestrated>>

\* listen_for_wake_word_with_interrupt: "while not interrupt_event.is_set()";
\* when set, recorder.stop() and the thread ends
ListenerTest ==
    /\ lpc = "test"
    /\ lpc' = IF interrupt_event THEN "done" ELSE "read"
    /\ UNCHANGED <<mpc, interrupt_event, playback_completed, pcm_list,
                   total_written_length, interrupted, completion_event, fpc,
                   detected, set_before_flushed, set_with_audio_left,
                   writes_after_set, playable, orchestrated>>

\* audio is left to write beyond the call of speaker.write in hand, if any
AudioLeft ==
    \/ mpc \in {"open", "chunk_check", "write_check"}
    \/ mpc = "write" /\ Len(pcm_list) > 1

\* listen_for_wake_word_with_interrupt: recorder.read(), porcupine.process
\* and "if keyword_index >= 0: interrupt_event.set(); break"
ListenerRead ==
    /\ lpc = "read"
    /\ \E keyword \in BOOLEAN :
          IF keyword
          THEN /\ interrupt_event' = TRUE
               /\ detected' = TRUE
               /\ set_before_flushed' =
                      (~interrupt_event /\ playback_completed = "none"
                       /\ ~completion_event)
               /\ set_with_audio_left' =
                      (~interrupt_event /\ playback_completed = "none"
                       /\ AudioLeft)
               /\ lpc' = "done"
          ELSE /\ lpc' = "test"
               /\ UNCHANGED <<interrupt_event, detected, set_before_flushed,
                              set_with_audio_left>>
    /\ UNCHANGED <<mpc, playback_completed, pcm_list, total_written_length,
                   interrupted, completion_event, fpc, writes_after_set,
                   playable, orchestrated>>

\* what listen_for_command may return as text: None (no speech, or an empty
\* transcription) is <<>>
CommandTexts == {<<>>, T_A}
BriefTexts == {<<>>, T_HEY}

\* MainLoopTop leaving pending_text as it is when it takes the text from it
MainLoopTop_KeepsPending ==
    /\ mpc = "loop_top"
    /\ m_loops <= MaxLoops
    /\ m_loops' = m_loops + 1
    /\ m_wake' = FALSE
    /\ m_recorded' = FALSE
    /\ IF pending_text # <<>>
       THEN /\ m_text' = pending_text
            /\ mpc' = "respond"
            /\ UNCHANGED pending_text
       ELSE /\ mpc' = IF ~conversation_mode THEN "wake" ELSE "listen"
            /\ UNCHANGED <<m_text, pending_text>>
    /\ UNCHANGED <<interrupt_event, playback_completed, pcm_list,
                   total_written_length, interrupted, completion_event, fpc,
                   lpc, detected, set_before_flushed, set_with_audio_left,
                   writes_after_set, playable, conversation_mode, m_before,
                   m_processed, m_captured, shared, clock, voice, pipeline>>

\* main, top of the while: "if pending_text: text = pending_text;
\* pending_text = None", else "if not conversation_mode:" on to
\* record_wake_word, else on to listen_for_command
MainLoopTop ==
    /\ mpc = "loop_top"
    /\ m_loops <= MaxLoops
    /\ m_loops' = m_loops + 1
    /\ m_wake' = FALSE
    /\ m_recorded' = FALSE
    /\ IF pending_text # <<>>
       THEN /\ m_text' = pending_text
            /\ pending_text' = <<>>
            /\ mpc' = "respond"
       ELSE /\ mpc' = IF ~conversation_mode THEN "wake" ELSE "listen"
            /\ UNCHANGED <<m_text, pending_text>>
    /\ UNCHANGED <<interrupt_event, playback_completed, pcm_list,
                   total_written_length, interrupted, completion_event, fpc,
                   lpc, detected, set_before_flushed, set_with_audio_left,
                   writes_after_set, playable, conversation_mode, m_before,
                   m_processed, m_captured, shared, clock, voice, pipeline>>

\* main: vrchat_osc.clear_message() and audio_recorder.record_wake_word(),
\* which returns when the wake word is heard
MainRecordWakeWord ==
    /\ mpc = "wake"
    /\ m_wake' = TRUE
    /\ mpc' = "listen"
    /\ UNCHANGED <<interrupt_event, playback_completed, pcm_list,
                   total_written_length, interrupted, completion_event, fpc,
                   lpc, detected, set_before_flushed, set_with_audio_left,
                   writes_after_set, playable, conversation_mode, pending_text,
                   m_text, m_loops, m_recorded, m_before, m_processed,
                   m_captured, shared, clock, voice, pipeline>>

\* main: listen_for_command and "if not text: if conversation_mode:
\* conversation_mode = False ... continue"
MainListenForCommand ==
    /\ mpc = "listen"
    /\ m_recorded' = TRUE
    /\ \E text \in CommandTexts :
          /\ m_text' = text
          /\ IF text = <<>>
             THEN /\ conversation_mode' = FALSE
                  /\ m_before' = "no_text"
                  /\ mpc' = "loop_top"
             ELSE /\ mpc' = "respond"
                  /\ UNCHANGED <<conversation_mode, m_before>>
    /\ UNCHANGED <<interrupt_event, playback_completed, pcm_list,
                   total_written_length, interrupted, completion_event, fpc,
                   lpc, detected, set_before_flushed, set_with_audio_left,
                   writes_after_set, playable, pending_text, m_loops, m_wake,
                   m_processed, m_captured, shared, clock, voice, pipeline>>

\* main: decide_websearch, the RAG and search phase, send_to_llm,
\* tts.synthesize and save_wav_file for text
MainRespond ==
    /\ mpc = "respond"
    /\ m_processed' = Append(m_processed,
                             [text |-> m_text, pending |-> ~m_recorded])
    /\ mpc' = "start_listener"
    /\ UNCHANGED <<interrupt_event, playback_completed, pcm_list,
                   total_written_length, interrupted, completion_event, fpc,
                   lpc, detected, set_before_flushed, set_with_audio_left,
                   writes_after_set, playable, conversation_mode, pending_text,
                   m_text, m_loops, m_wake, m_recorded, m_before, m_captured,
                   shared, clock, voice, pipeline>>

\* main after wake_word_thread.join(): "if playback_completed:" the brief
\* listening (listen_for_command) and "if text: conversation_mode = True;
\* pending_text = text / else: conversation_mode = False"; otherwise
\* "conversation_mode = True"
MainAfterJoin ==
    /\ mpc = "joined"
    /\ scenario = "mainloop"
    /\ IF playback_completed = "True"
       THEN \E text \in BriefTexts :
               /\ m_text' = text
               /\ IF text # <<>>
                  THEN /\ conversation_mode' = TRUE
                       /\ pending_text' = text
                       /\ m_captured' = Append(m_captured, text)
                       /\ m_before' = "captured"
                  ELSE /\ conversation_mode' = FALSE
                       /\ m_before' = "silent"
                       /\ UNCHANGED <<pending_text, m_captured>>
       ELSE /\ conversation_mode' = TRUE
            /\ m_before' = "interrupted"
            /\ UNCHANGED <<m_text, pending_text, m_captured>>
    /\ mpc' = "loop_top"
    /\ UNCHANGED <<interrupt_event, playback_completed, pcm_list,
                   total_written_length, interrupted, completion_event, fpc,
                   lpc, detected, set_before_flushed, set_with_audio_left,
                   writes_after_set, playable, m_loops, m_wake, m_recorded,
                   m_processed, shared, clock, voice, pipeline>>

\* the loop of main around the playback
MainLoopNext ==
    \/ MainLoopTop
    \/ MainRecordWakeWord
    \/ MainListenForCommand
    \/ MainRespond
    \/ MainAfterJoin

\* main and the player it calls
MainNext ==
    \/ MainStartListener
    \/ PlayOpen
    \/ PlayChunkCheck
    \/ PlayWriteCheck
    \/ PlayWrite
    \/ PlayStartFlush
    \/ PlayFlushTest
    \/ PlayFlushCheck
    \/ PlayFlushWait
    \/ PlayJoinWorker
    \/ MainAfterPlay
    \/ MainJoinListener

\* the wake word thread
ListenerNext == ListenerTest \/ ListenerRead

\* ------------------------------------------------------------------------
\* Specifications
\* ------------------------------------------------------------------------
Next == Tick \/ VoiceNext \/ PipelineNext

\* the user may barge in and may pause for long
Spec == Init /\ [][Next]_vars

\* the steps of a run in which no barge-in occurs
NextDialogue ==
    \/ VoiceNext
    \/ PipelineSetup
    \/ PipelineWaitVoice
    \/ PipelineGet
    \/ PipelineProcessQuery
    \/ PipelineQueryRag
    \/ PipelineGenerate
    \/ PipelineLlmReturn
    \/ PipelineAfterQuery
    \/ PipelineSynthesize
    \/ PipelinePlay
    \/ PipelineGetFinish
    \/ PipelineOrphanFinish

\* no barge-in, no long pause, one more utterance
SpecDialogue == InitDialogue /\ [][NextDialogue]_vars

\* the steps of a run in which calls may raise
NextFaults ==
    \/ VoiceNext
    \/ VoiceRaise
    \/ PipelineSetup
    \/ PipelineWaitVoice
    \/ PipelineGet
    \/ PipelineProcessQuery
    \/ PipelineQueryRag
    \/ PipelineGenerate
    \/ PipelineLlmReturn
    \/ PipelineAfterQuery
    \/ PipelineSynthesize
    \/ PipelinePlay
    \/ PipelineGetFinish
    \/ PipelineGetFinishError
    \/ PipelineOrphanFinish
    \/ PipelineDecrementRead
    \/ PipelineDecrementWrite
    \/ PipelineRaise

\* barge-ins and calls that raise
SpecFaults == InitFaults /\ [][NextFaults]_vars

\* the same runs when the two processes started by PipelineOrchestrator.start
\* are each scheduled again and again by the operating system
SpecFaultsFair == SpecFaults /\ WF_vars(VoiceNext) /\ WF_vars(PipelineNext)

\* the steps of main, of the wake word thread and of the flush thread
NextPlayback == MainNext \/ ListenerNext \/ FlushWorker

\* one playback of s2s_pipeline.main
SpecPlayback == InitPlayback /\ [][NextPlayback]_vars

\* the same when the three threads are each scheduled again and again
SpecPlaybackFair ==
    SpecPlayback /\ WF_vars(MainNext) /\ WF_vars(ListenerNext)
                 /\ WF_vars(FlushWorker)

\* the steps of a run in which retrieval is confident
NextInterrupts ==
    \/ VoiceNext
    \/ PipelineSetup
    \/ PipelineWaitVoice
    \/ PipelineGet
    \/ PipelineProcessQuery
    \/ PipelineQueryRag
    \/ PipelineGenerate
    \/ PipelineLlmReturn
    \/ PipelineAfterQuery
    \/ PipelineSynthesize
    \/ PipelinePlay
    \/ PipelineGetFinish
    \/ PipelineOrphanFinish
    \/ PipelineDecrementRead
    \/ PipelineDecrementWrite

\* barge-ins, one more utterance, no long pause
SpecInterrupts == InitInterrupts /\ [][NextInterrupts]_vars

\* the steps of a run in which the LLM streams its answer
NextStream ==
    \/ VoiceNext
    \/ PipelineSetup
    \/ PipelineWaitVoice
    \/ PipelineGet
    \/ PipelineProcessQuery
    \/ PipelineQueryRag
    \/ PipelineGenerate
    \/ PipelineStreamChunk
    \/ PipelineLlmReturn
    \/ PipelineAfterQuery
    \/ PipelineSynthesize
    \/ PipelinePlay
    \/ PipelineGetFinish
    \/ PipelineOrphanFinish
    \/ PipelineDecrementRead
    \/ PipelineDecrementWrite

\* barge-ins while the answer is streamed
SpecStream == InitStream /\ [][NextStream]_vars

\* the same runs when the two processes started by PipelineOrchestrator.start
\* are each scheduled again and again by the operating system and the
\* completion stream keeps delivering
SpecStreamFair ==
    SpecStream /\ WF_vars(VoiceNext)
               /\ WF_vars(PipelineNext \/ PipelineStreamChunk)

\* the steps of a run without barge-ins in which the clock may jump
NextTimeout == Tick \/ NextDialogue

\* no barge-in, the user may pause for long, WAKEWORD_RESET_TIME as shipped
\* or 0
SpecTimeout == InitTimeout /\ [][NextTimeout]_vars

\* the steps of a run without barge-ins in which RAG may lack confident
\* information
NextWebsearch ==
    \/ NextDialogue
    \/ PipelineDecideWebsearch
    \/ PipelineSearchNotification
    \/ PipelineWebsearch

\* no barge-in, RAG scores on both sides of the threshold, ENABLE_WEBSEARCH
\* as shipped or False
SpecWebsearch == InitWebsearch /\ [][NextWebsearch]_vars

\* s2s_pipeline: the loop of main, the player and the two threads
NextMainLoop == MainLoopNext \/ MainNext \/ ListenerNext \/ FlushWorker

\* s2s_pipeline from the start of main, for MaxLoops + 1 iterations
SpecMainLoop == InitMainLoop /\ [][NextMainLoop]_vars

\* the steps of ResponseWorker alone
NextRequeue ==
    \/ PipelineGet
    \/ PipelineProcessQuery
    \/ PipelineQueryRag
    \/ PipelineGenerate
    \/ PipelineLlmReturn
    \/ PipelineAfterQuery
    \/ PipelineSynthesize
    \/ PipelinePlay
    \/ PipelineGetFinish
    \/ PipelineOrphanFinish
    \/ PipelineDecrementRead
    \/ PipelineDecrementWrite

\* ResponseWorker on a queue filled by another producer
SpecRequeue == InitRequeue /\ [][NextRequeue]_vars

\* ------------------------------------------------------------------------
\* Properties
\* ------------------------------------------------------------------------
\* every item put on the queue has been read and ResponseWorker is back at
\* the top of its loop
Drained ==
    /\ command_queue = <<>>
    /\ ppc = "idle"
    /\ vpc # "put_finish"
    /\ starts_read = finishes_read

\* the START/FINISH pair of the current round has been consumed and
\* reconciled
PairConsumed ==
    /\ ppc = "idle"
    /\ starts_read > 0
    /\ starts_read = finishes_read

\* C1: whenever the command queue is empty and ResponseWorker is idle with
\* every enqueued START/FINISH pair consumed, interrupt_count is 0.
C1_DrainedCountZero == Drained => interrupt_count = 0

\* C2: interrupt_count is never negative, whatever the interleaving of the
\* increments of CaptureWorker with the two decrements of ResponseWorker.
C2_NeverNegative == interrupt_count >= 0

\* C2 witness: a barge-in was counted and the orphan-FINISH branch has
\* decremented the count back to 0.
C2_Witness ==
    /\ ppc = "idle"
    /\ finish_late
    /\ round_decs = 1
    /\ interrupt_count = 0

FinishOf(start) == [start EXCEPT !.marker = "finish"]

\* queue is a run of adjacent START/FINISH pairs, but for a last START whose
\* FINISH run_loop is about to put
AdjacentPairs(queue) ==
    \A i \in DOMAIN queue :
        IF i % 2 = 1
        THEN /\ queue[i].marker = "start"
             /\ IF i < Len(queue)
                THEN queue[i + 1] = FinishOf(queue[i])
                ELSE /\ vpc = "put_finish"
                     /\ queue[i] = WorkItem(v_text, "start", v_continuation,
                                            v_is_goodbye, v_start_time)
        ELSE queue[i].marker = "finish"

\* C4: the items put on the command queue are adjacent START/FINISH pairs
\* with the same text, continuation, is_goodbye and start_time, so what is
\* left in the queue is the FINISH ResponseWorker still owes (if any)
\* followed by whole pairs, and once everything is read as many FINISHes as
\* STARTs have been read.
C4_AdjacentPairs ==
    /\ starts_read - finishes_read \in {0, 1}
    /\ IF starts_read = finishes_read
       THEN AdjacentPairs(command_queue)
       ELSE IF command_queue = <<>>
       THEN vpc = "put_finish" /\ v_text = p_text
       ELSE /\ Head(command_queue) =
                   WorkItem(p_text, "finish", p_continuation, p_is_goodbye,
                            Head(command_queue).start_time)
            /\ AdjacentPairs(Tail(command_queue))
    /\ (command_queue = <<>> /\ vpc # "put_finish" /\ ppc = "idle")
           => starts_read = finishes_read

\* C4 witness: one pair has been read and the next pair waits in the queue,
\* whole.
C4_Witness ==
    /\ starts_read = 1
    /\ finishes_read = 1
    /\ Len(command_queue) = 2
    /\ command_queue[2] = FinishOf(command_queue[1])

\* C5: when ResponseWorker calls process_query for a START, the FINISH of
\* every earlier round has been removed from the queue and, if that round was
\* interrupted, its decrement has been made; also after a bounded FINISH read
\* that timed out.
C5_FinishBeforeNextStart ==
    ppc = "query" =>
        /\ finishes_read = starts_read - 1
        /\ p_interrupted => round_decs = 1

\* C5 witness: process_query is about to be called for the second START after
\* the bounded read of the first round's FINISH timed out.
C5_Witness ==
    /\ ppc = "query"
    /\ starts_read = 2
    /\ finish_late

\* C6: a wake-word detection while the command queue is non-empty increments
\* interrupt_count by exactly one before the recording begins, and a
\* detection with an empty queue leaves it unchanged.
C6_DetectionIncrements ==
    [][(vpc = "listen" /\ vpc' = "record")
        => interrupt_count' = IF command_queue # <<>>
                              THEN interrupt_count + 1
                              ELSE interrupt_count]_vars

\* the interruption marker send_to_llm builds for an interrupted text
InterruptMarker(text) == <<"<interrupt>">> \o text \o <<"</interrupt>">>

\* C7: after a round was interrupted, the prompt of the next generation call
\* contains the interrupted text wrapped in <interrupt>...</interrupt>; stated
\* for a next command that is a new command, not a continuation whose merged
\* text repeats the interrupted one.
C7_InterruptedTextInNextPrompt ==
    [][(llm_calls' = llm_calls + 1 /\ pending_interrupted # <<>>
            /\ ~p_continuation)
        => Contains(llm_prompt', InterruptMarker(pending_interrupted))]_vars

\* C9: from the moment the FINISH of a goodbye utterance is put, whatever
\* ResponseWorker has done with it, a wake word is asked for until one is
\* heard, prev_text is empty and first_loop is set until the next utterance
\* is accepted, and no command is recorded before a wake word was heard.
C9_GoodbyeResets ==
    after_goodbye =>
        /\ vpc # "put_finish" => (prev_text = <<>> /\ first_loop)
        /\ ~heard_wake => ask_wakeword
        /\ vpc \in {"record", "transcribe", "put_finish"} => heard_wake

\* C9 witness: the next utterance after a goodbye was accepted after a wake
\* word, while ResponseWorker had not yet read the START of the goodbye.
C9_Witness ==
    /\ after_goodbye
    /\ vpc = "put_finish"
    /\ heard_wake
    /\ starts_read = 0
    /\ Len(command_queue) = 3

\* rounds i and j are non-continuation STARTs with the same text up to case
\* and surrounding blanks, processed less than the debounce window apart
DuplicatePair(i, j) ==
    /\ ~rounds[i].continuation
    /\ ~rounds[j].continuation
    /\ Lower(Strip(rounds[i].text)) = Lower(Strip(rounds[j].text))
    /\ rounds[j].time - rounds[i].time < DEBOUNCE_WINDOW

\* C8 as claimed: of two non-continuation STARTs with the same normalised
\* text processed less than the debounce window apart, at most one reaches a
\* generation call.
C8_AtMostOneGenerated ==
    \A i, j \in DOMAIN rounds :
        (i < j /\ DuplicatePair(i, j))
            => ~(rounds[i].generated /\ rounds[j].generated)

\* C8 amended: of two such STARTs processed one right after the other, at
\* most one reaches a generation call; the one suppressed after a generated
\* round returns no response and is not reported interrupted; and the FINISH
\* of every processed round, suppressed or not, is read.
C8_ConsecutiveDuplicateSuppressed ==
    /\ \A j \in DOMAIN rounds :
          (j > 1 /\ DuplicatePair(j - 1, j) /\ rounds[j - 1].generated)
              => /\ ~rounds[j].generated
                 /\ (j = Len(rounds) /\ ppc = "after_query")
                        => (p_response = <<>> /\ ~p_interrupted)
                 /\ (j = Len(rounds)) => ppc \notin {"synthesize", "play"}
    /\ (command_queue = <<>> /\ ppc = "idle" /\ vpc # "put_finish")
           => finishes_read = Len(rounds)

\* C8 witness: the second of two equal queries was suppressed after the first
\* was generated, and its FINISH has been read.
C8_Witness ==
    /\ Len(rounds) = 2
    /\ DuplicatePair(1, 2)
    /\ rounds[1].text # rounds[2].text
    /\ rounds[1].generated
    /\ ppc = "idle"
    /\ finishes_read = 2

\* the transcripts of a chain joined with ", ", grouped from the right
RECURSIVE JoinChain(_)
JoinChain(chain) ==
    IF Len(chain) = 1 THEN Head(chain)
    ELSE Head(chain) \o <<COMMA, SP>> \o JoinChain(Tail(chain))

\* the prompt content a single utterance gets when nothing was interrupted
SinglePrompt(text, context) ==
    (IF context # <<>>
     THEN <<"<context>">> \o context \o <<"</context>", "\n", "\n">>
     ELSE <<>>)
    \o text \o (IF ENABLE_THINK THEN <<>> ELSE <<SP, "/no_think">>)

\* C10 as claimed: a follow-up merged into "A, B" gives the same downstream
\* prompt as the single utterance "A, B": it reaches the generation call only
\* if that text reaches it as an utterance of its own.
C10_SamePromptAsSingleUtterance ==
    (ppc = "generate" /\ p_continuation) => is_meaningful_prompt(Strip(p_text))

\* C10 amended: the text put on the queue for a chain of quick follow-ups is
\* the transcripts joined with ", " however the merges are grouped, it is
\* marked a continuation exactly if more than one transcript is merged, and
\* a generation call for a round gets the prompt content its text would get
\* as a single utterance with the same context.
C10_MergedTextAndPrompt ==
    /\ vpc = "put_finish"
          => /\ v_text = JoinChain(v_chain)
             /\ v_continuation <=> (Len(v_chain) > 1)
    /\ (ppc = "after_query" /\ rounds[Len(rounds)].generated)
          => llm_prompt = SinglePrompt(p_text, p_context)

\* C10 witness: a chain of three transcripts was merged and put on the queue.
C10_Witness ==
    /\ vpc = "put_finish"
    /\ Len(v_chain) = 3
    /\ v_continuation


\* C11: when the bounded read of the FINISH of round N finds nothing in time,
\* ResponseWorker logs an error and goes back to the top of its loop (it
\* neither ends nor blocks), and the START of round N+1 is processed only
\* after the late FINISH of round N has been read
C11_TimeoutTolerated ==
    /\ [](finish_late /\ ppc \notin {"idle", "orphan", "dec_read", "dec_write"}
             => finishes_read = starts_read - 1)
    /\ [][(ppc = "get_finish" /\ command_queue = <<>> /\ ppc' # ppc)
             => (ppc' = "idle" /\ p_logged' = "error"
                 /\ command_queue' = command_queue)]_vars

\* the FINISH of round 1 came late and round 2 has been processed since
C11_Witness ==
    /\ ppc = "after_query"
    /\ starts_read = 2
    /\ finishes_read = 1
    /\ finish_late
    /\ p_logged = "error"


\* the number of times item is on queue
Count(queue, item) == Cardinality({i \in DOMAIN queue : queue[i] = item})

\* queue1 and queue2 hold the same items, each as many times
SameItems(queue1, queue2) ==
    \A item \in {queue1[i] : i \in DOMAIN queue1}
                   \cup {queue2[i] : i \in DOMAIN queue2} :
        Count(queue1, item) = Count(queue2, item)

\* the bounded read after a START is about to hand back an item that is not
\* the FINISH for the same text
FinishMismatch ==
    /\ ppc = "get_finish"
    /\ command_queue # <<>>
    /\ ~(QueueGet(command_queue).marker = "finish"
         /\ QueueGet(command_queue).text = p_text)

\* C12: when the item read after a START is not the FINISH for the same
\* text, ResponseWorker puts it back on the command queue and logs a warning:
\* the queue holds the same items as before the read, interrupt_count is not
\* changed, and the worker is back at the top of its loop
C12_MismatchRequeued ==
    [][(FinishMismatch /\ ppc' # ppc)
          => /\ SameItems(command_queue', command_queue)
             /\ interrupt_count' = interrupt_count
             /\ p_logged' = "warning"
             /\ ppc' = "idle"]_vars

\* an interrupted round has met an item that was not its FINISH
C12_Witness ==
    /\ p_logged = "warning"
    /\ ppc = "idle"
    /\ p_interrupted
    /\ interrupt_count = 1
    /\ command_queue # <<>>


\* C13: playback_active is 1 only while ResponseWorker is inside
\* synthesize_and_play or play_search_notification; it is 0 again once the
\* playback has ended, so it is 0 whenever ResponseWorker is at the top of its
\* loop waiting for the next queue item
C13_PlaybackFlag ==
    /\ playback_active \in {0, 1}
    /\ playback_active = 1 => ppc \in {"notify", "synthesize", "play"}
    /\ ppc = "idle" => playback_active = 0

\* C14: a step of CaptureWorker neither decrements interrupt_count nor writes
\* playback_active nor changes the interrupt context; a step of
\* ResponseWorker neither increments interrupt_count nor changes the
\* conversation state (ask_wakeword, last_command_time, prev_text,
\* first_loop)
C14_Ownership ==
    [][/\ VoiceNext => /\ interrupt_count' >= interrupt_count
                       /\ playback_active' = playback_active
                       /\ interrupt_context' = interrupt_context
       /\ PipelineNext => /\ interrupt_count' <= interrupt_count
                          /\ vfields' = vfields]_vars

\* CaptureWorker has counted a barge-in and kept a command, ResponseWorker
\* has decremented for the interrupted round
C14_Witness ==
    /\ ppc = "idle"
    /\ p_interrupted
    /\ round_decs = 1
    /\ interrupt_count = 0
    /\ prev_text # <<>>
    /\ ~first_loop

\* run_loop is past the handshake, in its while loop
VoiceInLoop == vpc \notin {"setup", "wait_pipeline"}

\* pipeline_worker_func is past the handshake, in its while loop
PipelineInLoop == ppc \notin {"setup", "wait_voice"}

\* C15: each worker sets its own event and then waits for the other's, so a
\* worker is in its loop only when both events are set, and when both
\* processes keep being scheduled both workers are eventually in their loops,
\* whichever starts first
C15_Handshake ==
    /\ [](VoiceInLoop \/ PipelineInLoop
             => voice_setup_event /\ pipeline_setup_event)
    /\ [](vpc = "wait_pipeline" => voice_setup_event)
    /\ [](ppc = "wait_voice" => pipeline_setup_event)
    /\ <>(VoiceInLoop /\ PipelineInLoop)

\* ResponseWorker set its event first and entered its loop last
C15_Witness ==
    /\ VoiceInLoop
    /\ PipelineInLoop
    /\ vpc = "listen"
    /\ ppc = "idle"
    /\ command_queue = <<>>

\* C16: an exception raised by a collaborator inside a round never ends a
\* worker: neither run_loop nor pipeline_worker_func is ever left
C16_WorkersSurvive == vpc # "terminated" /\ ppc # "terminated"


\* C17: an interrupted round that ends on an error path still has
\* interrupt_count reconciled: when the read of its FINISH timed out or
\* failed, the decrement has been made before the next START is processed,
\* and ResponseWorker never ends on a raised exception with a barge-in still
\* counted
C17_ErrorPathReconciled ==
    /\ (ppc = "query" /\ p_interrupted /\ p_logged = "error") => round_decs = 1
    /\ ppc = "terminated" => interrupt_count = 0


\* C18: once a round of ResponseWorker has ended without playing audio
\* (interrupted, skipped or failed), the chatbox no longer shows the status
\* that generate_response set: outside process_query and synthesize_and_play
\* the message is never "thinking..."
C18_StatusCleared ==
    ppc \in {"get_finish", "idle", "orphan", "dec_read", "dec_write",
             "terminated"}
        => osc_message # THINKING


\* C19: when the wake word thread sets the event before all audio has been
\* written and flushed, play_wav_file_interruptible makes at most one more
\* call of speaker.write and never returns True
C19_SetBeforeFlushedNeverTrue ==
    /\ writes_after_set <= 1
    /\ set_before_flushed => playback_completed # "True"

\* C19, amended: at most one call of speaker.write begins after the wake word
\* thread has set the event; when the event is set while audio is left to
\* write beyond the write in hand, or when a test of the event by the player
\* finds it set, the player returns False; it returns True only with all
\* audio written and the flush completed
C19_StopsWhenEventSeen ==
    /\ writes_after_set <= 1
    /\ set_with_audio_left => playback_completed # "True"
    /\ interrupted => playback_completed = "False"
    /\ playback_completed = "True" => (pcm_list = <<>> /\ completion_event)

\* the event was set during the first of two chunks: one more write, then
\* the player returned False
C19_Witness ==
    /\ set_with_audio_left
    /\ writes_after_set = 1
    /\ pcm_list # <<>>
    /\ interrupted
    /\ playback_completed = "False"
    /\ mpc = "joined"

\* C20: when the playback completes without the wake word being heard, the
\* player returns True, main sets the event, the wake word thread sees it and
\* ends, and the join on it returns
C20_CompletedReleasesListener ==
    /\ [](playback_completed = "False" => (detected \/ ~playable))
    /\ [](mpc \in {"join_listener", "joined"} /\ playback_completed = "True"
             => interrupt_event)
    /\ (playback_completed = "True") ~> (mpc = "joined" /\ lpc = "done")

\* a playback that completed with no wake word heard, and the thread joined
C20_Witness ==
    /\ mpc = "joined"
    /\ lpc = "done"
    /\ playback_completed = "True"
    /\ ~detected
    /\ interrupt_event


\* C21: the length of interrupt_context is bounded by a small constant in
\* every state of ResponseWorker, whatever rounds were interrupted, skipped
\* or completed: it never holds more than the text of the round in hand, so
\* it stays below the cap of process_query and the cap never has to clear it
C21_BoundedContext ==
    /\ Len(interrupt_context) <= 1
    /\ Len(interrupt_context) <= INTERRUPT_CONTEXT_CAP + 1
    /\ interrupt_context # <<>> => ppc \in {"rag", "decide", "notify", "search",
                                           "generate", "after_query",
                                           "terminated"}

\* the first round was interrupted before its generation call, the second
\* round, with another text, was interrupted too, and its text is the only
\* entry
C21_Witness ==
    /\ ppc = "after_query"
    /\ p_interrupted
    /\ Len(rounds) = 2
    /\ rounds[1].text = T_A
    /\ ~rounds[1].generated
    /\ p_text # rounds[1].text
    /\ interrupt_context = <<p_text>>
    /\ finishes_read = 1


\* C22: the conversation state is reset to ask_wakeword = True and
\* prev_text = "" both when the wake-word reset timeout elapses and when a
\* goodbye is detected: whenever CaptureWorker waits for the wake word
\* prev_text is empty, and the first utterance accepted after a wake word is
\* not merged with the text spoken before it
C22_ResetsConversationState ==
    /\ vpc = "listen" => (ask_wakeword /\ prev_text = <<>>)
    /\ (vpc = "put_finish" /\ heard_wake) => (~v_continuation /\ Len(v_chain) = 1)


\* C23: after the START of a round has been processed (answered, skipped or
\* aborted) and before its FINISH is read, ResponseWorker clears
\* interrupt_context, so it is empty while the FINISH is read and reconciled
\* and whenever process_query is entered
C23_ClearedEachRound ==
    ppc \in {"get_finish", "dec_read", "dec_write", "idle", "orphan", "query"}
        => interrupt_context = <<>>

\* process_query is entered for the second round after the first round was
\* aborted inside process_query, which put its text on interrupt_context
C23_Witness ==
    /\ ppc = "query"
    /\ starts_read = 2
    /\ Len(rounds) = 1
    /\ rounds[1].text = T_A
    /\ ~rounds[1].generated
    /\ p_interrupted
    /\ pending_interrupted = T_A
    /\ round_decs = 1


\* the START in hand passes the duplicate test and the meaningfulness filter
\* of process_query
PassedFilters ==
    /\ ~IsDuplicate(p_text, p_continuation)
    /\ is_meaningful_prompt(Strip(p_text)) \/ p_continuation \/ p_is_goodbye

\* text is an entry of context
InContext(context, text) == \E i \in DOMAIN context : context[i] = text

\* C24: if interrupt_count > 0 when process_query reaches the pre-flight
\* check for a START that passed the duplicate and meaningfulness filters,
\* the round is aborted with the interrupted result ("", True), its text is
\* put on interrupt_context, and ResponseWorker goes on to read the FINISH
\* without any retrieval, search, generation or synthesis call
C24_PreflightAbort ==
    /\ [][(ppc = "query" /\ ppc' # "query" /\ PassedFilters
              /\ interrupt_count > 0)
            => /\ ppc' = "after_query"
               /\ p_interrupted'
               /\ p_response' = <<>>
               /\ InContext(interrupt_context', p_text)
               /\ llm_calls' = llm_calls
               /\ UNCHANGED <<playback_active, osc_message,
                              current_chat_history>>]_vars
    /\ [][(ppc = "after_query" /\ p_interrupted /\ ppc' # ppc)
            => /\ ppc' = "get_finish"
               /\ llm_calls' = llm_calls
               /\ UNCHANGED <<playback_active, osc_message,
                              current_chat_history>>]_vars

\* a goodbye was aborted at the pre-flight check (a goodbye meets no other
\* interrupt check inside process_query)
C24_Witness ==
    /\ ppc = "after_query"
    /\ p_is_goodbye
    /\ p_interrupted
    /\ p_response = <<>>
    /\ interrupt_context = <<p_text>>


\* C25: generation is cooperatively cancellable: whenever interrupt_count is
\* nonzero when send_to_llm consumes a chunk of the stream, or when it has
\* returned to generate_response, the round ends with the interrupted result
\* and no response text, whatever part of the answer had been received; a
\* response is synthesized or played only after the whole stream has been
\* consumed with interrupt_count = 0 at every chunk and at the return
C25_GenerationCancellable ==
    /\ [][(ppc \in {"generate", "stream", "llm_return"}
              /\ (ppc' # ppc \/ llm_stream' # llm_stream)
              /\ interrupt_count > 0)
            => \/ /\ ppc' = "after_query"
                  /\ p_interrupted'
                  /\ p_response' = <<>>
                  /\ InContext(interrupt_context', p_text)
               \/ /\ ppc = "generate"
                  /\ ppc' = "llm_return"
                  /\ llm_stream' = <<>>
                  /\ response_text' = <<>>]_vars
    /\ [](ppc = "after_query" /\ p_interrupted => p_response = <<>>)
    /\ [](ppc \in {"synthesize", "play"} /\ rounds[Len(rounds)].generated
             => /\ llm_stream = <<>>
                /\ p_response = response_text
                /\ p_response # <<>>)

\* a barge-in was seen at the second chunk: the text received so far is
\* dropped and the round is reported interrupted
C25_Witness ==
    /\ ppc = "after_query"
    /\ p_interrupted
    /\ rounds[Len(rounds)].generated
    /\ response_text = LLM_REPLY
    /\ Len(llm_stream) = 1
    /\ p_response = <<>>
    /\ interrupt_context = <<p_text>>


\* no entry of context occurs in it twice
NoDup(context) ==
    \A i, j \in DOMAIN context : context[i] = context[j] => i = j

\* the interrupt contexts on which interrupt_actions is examined: up to
\* INTERRUPT_CONTEXT_CAP texts without repetition
ContextTexts == {T_A, T_HEY, T_BYE}
Contexts ==
    {c \in UNION {[1..n -> ContextTexts] : n \in 0..INTERRUPT_CONTEXT_CAP} :
        NoDup(c)}

\* C26: every exit of process_query that aborts because interrupt_count > 0
\* (pre-flight, after retrieval, search classification, web search,
\* generation) appends the round's text to interrupt_context unless it is
\* already there: the text is in the context after the exit, an absent text
\* is appended at the end, a present one leaves the context as it was, and
\* interrupt_context never holds the same text twice
C26_AppendedUnlessPresent ==
    /\ \A c \in Contexts : \A t \in ContextTexts :
          interrupt_actions(c, t) = IF InContext(c, t) THEN c ELSE Append(c, t)
    /\ [](NoDup(interrupt_context))
    /\ [][(ppc \in {"query", "rag", "decide", "notify", "search", "generate", "stream",
                    "llm_return"}
              /\ ppc' = "after_query" /\ p_interrupted')
             => /\ interrupt_count > 0
                /\ InContext(interrupt_context', p_text)
                /\ NoDup(interrupt_context')
                /\ \/ interrupt_context' = interrupt_context
                   \/ interrupt_context' = Append(interrupt_context, p_text)]_vars

\* C26 witness: the second round of a run is aborted by a barge-in before
\* any generation call, outside the search notification, and its text is the
\* one entry of interrupt_context
C26_Witness ==
    /\ ppc = "after_query"
    /\ p_interrupted
    /\ Len(rounds) = 2
    /\ ~rounds[2].generated
    /\ playback_active = 0
    /\ interrupt_context = <<p_text>>


\* C27 as stated: the step that leaves the top of the run_loop iteration with
\* ask_wakeword false before it forces ask_wakeword to true exactly when the
\* reset timeout is nonzero and now - last_command_time exceeds it; with a
\* timeout of zero the check never forces ask_wakeword
C27_ForcedIffEnabledAndExpired ==
    [][(vpc = "loop_top" /\ vpc' # "loop_top" /\ ~ask_wakeword)
          => (ask_wakeword' <=>
                 (ResetTime > 0 /\ now - last_command_time > ResetTime))]_vars

\* C27: the step that leaves the top of the run_loop iteration forces
\* ask_wakeword to true, and clears the chatbox message, exactly when
\* now - last_command_time exceeds the reset timeout, whether the timeout is
\* zero or not; otherwise ask_wakeword and the message stay as they were, and
\* the wake word is listened for exactly when ask_wakeword is then true
C27_ForcedIffExpired ==
    [][(vpc = "loop_top" /\ vpc' # "loop_top")
          => /\ ask_wakeword' =
                   (ask_wakeword \/ now - last_command_time > ResetTime)
             /\ osc_message' = IF now - last_command_time > ResetTime
                               THEN <<>> ELSE osc_message
             /\ vpc' = IF ask_wakeword' THEN "listen" ELSE "record"]_vars

\* C27 witness: with WAKEWORD_RESET_TIME = 0, after an accepted utterance
\* that left ask_wakeword false, the timeout check has forced ask_wakeword
\* and run_loop listens for the wake word again
C27_Witness ==
    /\ scenario = "noreset"
    /\ vpc = "listen"
    /\ ~first_loop
    /\ ask_wakeword
    /\ now - last_command_time > ResetTime


\* C28: for a non-empty transcript t, process_text_continuation returns
\* continuation = true and the text prev_text + ", " + t exactly when the
\* reset timeout is nonzero, this is not the first iteration, and the time at
\* the call minus the duration of the command minus last_command_time is
\* below CONTINUATION_THRESHOLD; otherwise it returns t and continuation =
\* false.  Either way prev_text becomes the text returned, which is the text
\* of the START put on the queue
C28_ContinuationExactlyWhen ==
    [][(vpc = "transcribe" /\ vpc' = "put_finish")
          => LET t == v_chain'[Len(v_chain')]
                 merged == /\ ResetTime > 0
                           /\ ~first_loop
                           /\ now' - v_duration - last_command_time
                                 < CONTINUATION_THRESHOLD
             IN  /\ v_continuation' = merged
                 /\ v_text' = IF merged THEN prev_text \o <<COMMA, SP>> \o t
                              ELSE t
                 /\ prev_text' = v_text'
                 /\ ~first_loop'
                 /\ command_queue' = Append(command_queue,
                        WorkItem(v_text', "start", v_continuation',
                                 v_is_goodbye', now'))]_vars

\* C28 witness: with the shipped reset timeout, a second utterance that began
\* within the continuation threshold is about to be completed by its FINISH,
\* merged with the first
C28_Witness ==
    /\ scenario = "reset"
    /\ vpc = "put_finish"
    /\ v_continuation
    /\ v_text = T_A \o <<COMMA, SP>> \o T_HEY
    /\ prev_text = v_text
    /\ v_chain = <<T_A, T_HEY>>


\* the fields of VoiceInputModule and the command queue
ConversationAndQueue ==
    <<command_queue, ask_wakeword, first_loop, prev_text, last_command_time>>

InDecisionPipeline ==
    ppc \in {"rag", "decide", "notify", "search", "generate", "stream",
             "llm_return"}

\* C30 as stated: process_query called for a START with is_goodbye = true
\* while interrupt_count is 0 returns a response from goodbye_responses, not
\* interrupted, without a retrieval, search or generation call
C30_GoodbyeShortCircuit ==
    [][(ppc = "query" /\ ppc' # "query" /\ p_is_goodbye /\ interrupt_count = 0)
          => /\ ppc' = "after_query"
             /\ p_response' \in goodbye_responses
             /\ ~p_interrupted'
             /\ llm_calls' = llm_calls]_vars

\* C30: process_query called for a START with is_goodbye = true that is not
\* suppressed as a duplicate, while interrupt_count is 0, returns a response
\* from goodbye_responses, not interrupted, whether or not the text is a
\* meaningful prompt; no START with is_goodbye = true reaches retrieval,
\* search classification, web search or generation; and the response goes on
\* to synthesis with playback_active set.  A goodbye repeated within the
\* debounce window is suppressed like any duplicate and gets no response
C30_GoodbyeUnlessDuplicate ==
    /\ [][(ppc = "query" /\ ppc' # "query" /\ p_is_goodbye)
             => /\ ppc' = "after_query"
                /\ llm_calls' = llm_calls
                /\ IF IsDuplicate(p_text, p_continuation)
                   THEN p_response' = <<>> /\ ~p_interrupted'
                   ELSE IF interrupt_count > 0
                   THEN p_response' = <<>> /\ p_interrupted'
                   ELSE p_response' \in goodbye_responses /\ ~p_interrupted'
             ]_vars
    /\ [](InDecisionPipeline => ~p_is_goodbye)
    /\ [][(ppc = "after_query" /\ ppc' # "after_query"
              /\ p_response \in goodbye_responses)
             => /\ p_is_goodbye /\ ~p_interrupted
                /\ ppc' = "synthesize" /\ playback_active' = 1]_vars
    /\ [][(ppc = "synthesize" /\ ppc' # "synthesize" /\ p_is_goodbye
              /\ interrupt_count = 0)
             => ppc' = "play" /\ osc_message' = p_response]_vars

\* C30 witness: the goodbye "Bye", which is not a meaningful prompt, has been
\* answered from goodbye_responses without any generation call and the answer
\* is being played
C30_Witness ==
    /\ ppc = "play"
    /\ p_is_goodbye
    /\ p_text = T_BYE
    /\ ~is_meaningful_prompt(Strip(p_text))
    /\ p_response \in goodbye_responses
    /\ llm_calls = 0
    /\ playback_active = 1


\* the round in hand: the last call of process_query
Round == rounds[Len(rounds)]

\* C31: process_query calls the search classifier only after a retrieval
\* whose top score is below RAG_CONFIDENCE_THRESHOLD and only with
\* ENABLE_WEBSEARCH set, and performs the web search only after the
\* classifier was called in the same round and answered yes; after a
\* retrieval with a top score at or above the threshold the generation is
\* entered directly with the retrieved content as context and the round
\* calls neither the classifier nor the search
C31_SearchOnlyWhenNotConfident ==
    /\ [](ppc \in {"decide", "notify", "search"}
             => /\ EnableWebsearch
                /\ Round.score >= 0
                /\ Round.score < RAG_CONFIDENCE_THRESHOLD)
    /\ [](ppc \in {"notify", "search"} => Round.classified)
    /\ [](\A i \in DOMAIN rounds :
             rounds[i].classified
                => /\ EnableWebsearch
                   /\ rounds[i].score >= 0
                   /\ rounds[i].score < RAG_CONFIDENCE_THRESHOLD)
    /\ [][(ppc' = "notify" /\ ppc # "notify") => ppc = "decide"]_vars
    /\ [][(ppc' = "search" /\ ppc # "search") => ppc = "notify"]_vars
    /\ [][(ppc = "rag" /\ ppc' # "rag" /\ interrupt_count = 0)
             => IF Round'.score >= RAG_CONFIDENCE_THRESHOLD
                THEN ppc' = "generate" /\ p_context' = DOC
                ELSE /\ p_context' = <<>>
                     /\ ppc' = IF EnableWebsearch THEN "decide"
                               ELSE "generate"]_vars
    /\ [](ppc \in {"generate", "stream", "llm_return"}
             /\ Round.score >= RAG_CONFIDENCE_THRESHOLD
             => p_context = DOC /\ ~Round.classified)

\* C31 witness: with web search enabled, a retrieval below the threshold was
\* followed by the classifier and by the web search, whose results are the
\* context of the generation call
C31_Witness ==
    /\ scenario = "websearch"
    /\ ppc = "generate"
    /\ Round.score < RAG_CONFIDENCE_THRESHOLD
    /\ Round.classified
    /\ p_context = DOC


\* C32 as stated: the search notification runs concurrently with the web
\* search: it is being played, with playback_active = 1, when
\* perform_websearch issues the search, and it has ended, with
\* playback_active = 0, before the generation of the same round starts
C32_NotificationConcurrentWithSearch ==
    /\ [](ppc = "notify" => playback_active = 1)
    /\ [][(ppc' = "search" /\ ppc # "search") => playback_active' = 1]_vars
    /\ [](ppc \in {"generate", "stream", "llm_return"} => playback_active = 0)


\* the entry of m_processed came from pending_text
FromPending(entry) == entry.pending

\* the texts that main took from pending_text and handed to the response
\* stage, in order
ProcessedPending ==
    LET entries == SelectSeq(m_processed, FromPending)
    IN  [i \in DOMAIN entries |-> entries[i].text]

\* a text taken from pending_text is about to be handed to the response
\* stage, or one is waiting in pending_text
PendingInHand ==
    \/ pending_text # <<>>
    \/ mpc = "respond" /\ ~m_recorded

\* C33: in the loop of main a follow-on command needs no fresh wake word.
\* After an interrupted playback the next iteration goes to
\* listen_for_command without record_wake_word; after a completed playback
\* whose brief listening captured a text the next iteration hands that text
\* to the response stage without recording, and every captured text is
\* handed over exactly once, in order; after a brief listening without text,
\* and after a recording without text, conversation_mode is False, nothing is
\* pending and the next iteration waits for the wake word
C33_FollowOnCommand ==
    /\ [][(mpc = "loop_top" /\ mpc' # "loop_top")
             => mpc' = CASE m_before = "interrupted" -> "listen"
                         [] m_before = "captured" -> "respond"
                         [] OTHER -> "wake"]_vars
    /\ [](mpc = "listen" => (m_wake <=> m_before # "interrupted"))
    /\ [](mpc = "respond" /\ m_before = "captured"
             => /\ ~m_wake /\ ~m_recorded
                /\ m_text = m_captured[Len(m_captured)]
                /\ pending_text = <<>>)
    /\ [](mpc = "respond" /\ m_before # "captured" => m_recorded)
    /\ [](/\ Len(ProcessedPending) <= Len(m_captured)
          /\ ProcessedPending = SubSeq(m_captured, 1, Len(ProcessedPending))
          /\ Len(m_captured) - Len(ProcessedPending)
                = IF PendingInHand THEN 1 ELSE 0)
    /\ [](mpc = "loop_top" /\ m_before \in {"silent", "no_text"}
             => ~conversation_mode /\ pending_text = <<>>)

\* C33 witness: the first playback was interrupted and the command that
\* followed was recorded without a wake word; the playback of its response
\* completed, the brief listening captured "Hey", and the third iteration
\* hands "Hey" to the response stage without recording
C33_Witness ==
    /\ mpc = "respond"
    /\ m_loops = 3
    /\ m_before = "captured"
    /\ ~m_wake
    /\ ~m_recorded
    /\ m_text = T_HEY
    /\ Len(m_processed) = 2
    /\ ~m_processed[2].pending
    /\ m_captured = <<T_HEY>>

\* the places of pipeline_worker_func between the get of a START and the
\* get of its FINISH
InFlight ==
    {"query", "rag", "decide", "notify", "search", "generate", "stream",
     "llm_return", "after_query", "synthesize", "play", "get_finish"}

\* C34: when the only barge-in was counted while round N was in flight
\* (between the get of its START and the get of its FINISH), the START of
\* round N+1 is processed with interrupt_count = 0, so its pre-flight test
\* does not abort it
C34_ReconciledByItsRound ==
    (/\ ppc = "query"
     /\ Len(incs) = 1
     /\ incs[1].at \in InFlight
     /\ starts_read = incs[1].round + 1)
        => interrupt_count = 0

\* C35: no update of interrupt_count is lost: the counter equals the number
\* of increments performed less the number of decrements performed
C35_NoLostUpdate == interrupt_count = Len(incs) - decs

\* C36: whenever the pipeline worker is between the get of a START and the
\* get of its FINISH, the command queue is not empty: it holds the FINISH of
\* that round
C36_QueueHoldsFinish ==
    ppc \in InFlight
        => \E i \in DOMAIN command_queue :
              /\ command_queue[i].marker = "finish"
              /\ command_queue[i].text = p_text

\* C36 as the code has it: between the get of a START and the get of its
\* FINISH the command queue holds the FINISH of that round, except while the
\* voice worker is between its two puts; a recording, and so a wake-word
\* detection, of the voice worker during a round in flight always finds the
\* queue non-empty
C36_QueueHoldsFinishAfterPuts ==
    /\ (ppc \in InFlight /\ vpc # "put_finish")
          => \E i \in DOMAIN command_queue :
                /\ command_queue[i].marker = "finish"
                /\ command_queue[i].text = p_text
    /\ (ppc \in InFlight /\ vpc = "record") => command_queue # <<>>

\* C36 witness: a barge-in was counted while the response of round 1 was
\* played, and the round is still in flight
C36_Witness ==
    /\ ppc = "play"
    /\ starts_read = 1
    /\ incs = <<[round |-> 1, at |-> "play"]>>
    /\ command_queue # <<>>
    /\ Head(command_queue).marker = "finish"

\* C37: in every iteration of run_loop ask_wakeword is False after the
\* wake-word step: at the barge-in test (which therefore never counts), when
\* the recording starts and until the puts; it becomes True again only at
\* the timeout test at the top of the loop or at the goodbye reset
C37_NoWakewordAskedAfterWakeStep ==
    /\ [](vpc \in {"record", "transcribe", "put_finish"} => ~ask_wakeword)
    /\ [][(vpc \in {"loop_top", "listen"} /\ vpc' = "record")
             => /\ ~ask_wakeword'
                /\ interrupt_count' = interrupt_count]_vars
    /\ [][(~ask_wakeword /\ ask_wakeword')
             => \/ vpc = "loop_top" /\ should_reset_wakeword
                \/ vpc = "put_finish" /\ v_is_goodbye]_vars

\* C37 witness: the second iteration asked for the wake word again after the
\* timeout, the wake word was heard while the pair of the first command was
\* still queued, and the recording starts with ask_wakeword False and
\* nothing counted
C37_Witness ==
    /\ vpc = "record"
    /\ loops = 2
    /\ ticks = 1
    /\ heard_wake
    /\ ~ask_wakeword
    /\ Len(command_queue) = 2
    /\ interrupt_count = 0

\* the items of the command queue with marker m
Queued(m) == {i \in DOMAIN command_queue : command_queue[i].marker = m}

\* C38: when the voice worker has put its last pair and every call returns,
\* the pipeline worker, scheduled fairly, reads every item: from some point
\* on the queue is empty for good with as many FINISH read as START, and
\* every START read was handed to process_query exactly once; no item is put
\* back and no FINISH stays behind
C38_QueueDrains ==
    /\ <>[](/\ command_queue = <<>>
            /\ ppc = "idle"
            /\ vpc = "loop_top"
            /\ loops = LoopBound
            /\ starts_read = finishes_read
            /\ Len(rounds) = starts_read)
    /\ [](Len(rounds) = starts_read - (IF ppc = "query" THEN 1 ELSE 0))
    /\ [](starts_read + Cardinality(Queued("start"))
            = finishes_read + Cardinality(Queued("finish"))
                + (IF vpc = "put_finish" THEN 1 ELSE 0))
    /\ [][p_logged' # "warning"]_vars

\* C38 witness: the voice worker has put two pairs, the second after a
\* barge-in, and is at rest; both pairs were read and the queue is empty
C38_Witness ==
    /\ command_queue = <<>>
    /\ ppc = "idle"
    /\ vpc = "loop_top"
    /\ loops = LoopBound
    /\ starts_read = 2
    /\ finishes_read = 2
    /\ Len(incs) >= 1

\* C39: on every return path of play_wav_file_interruptible (completed,
\* interrupted, rejected) interrupt_event is set when main joins the
\* listener thread, so the join returns without a further detection
C39_EventSetAtJoin == mpc = "join_listener" => interrupt_event

\* a chat history in which user and assistant messages alternate, the user
\* first and the assistant last
Alternating(history) ==
    /\ Len(history) % 2 = 0
    /\ \A i \in DOMAIN history :
          history[i].role = IF i % 2 = 1 THEN "user" ELSE "assistant"

\* C40: outside send_to_llm the chat history alternates user and assistant
\* messages: a call aborted by an interrupt leaves the history as it was
\* before the call, the user message being added only together with the
\* assistant response
C40_AbortLeavesHistory ==
    /\ ppc # "stream" => Alternating(current_chat_history)
    /\ (ppc = "after_query" /\ p_interrupted /\ Len(rounds) = 1)
          => current_chat_history = <<>>

====
